---- MODULE Spec2Model ----
(***************************************************************************)
(* A model of builtins.__build_class__ (vm/src/stdlib/builtins.rs), the    *)
(* class-construction algorithm: base normalization, metaclass             *)
(* determination, namespace preparation, body execution, metaclass         *)
(* invocation and class-cell verification.  One action per step of the     *)
(* function between two calls into code it does not control.               *)
(*                                                                         *)
(* A second specification, HSpec, models the argument handles of           *)
(* vm/src/function/protocol.rs (ArgCallable, ArgIterable, ArgMapping,      *)
(* ArgSequence): a native function that is handed one object, binds        *)
(* handles to it and uses them.  LiveSpec adds a change of the slot table  *)
(* of the object's type and the locals handle ScopeArgs::make_scope builds *)
(* for the globals of eval and exec.  NestSpec runs __build_class__        *)
(* re-entrantly: user code it calls executes class statements of its own.  *)
(***************************************************************************)
EXTENDS Integers, Sequences, FiniteSets, TLC

VARIABLES
    pc,             \* position inside __build_class__
    qualified_name, \* argument: sequence of the dot-separated components
    type_params,    \* what reading function.__type_params__ gives
    arg_bases,      \* argument: the positional bases, as passed
    kwargs,         \* the keyword arguments (a set of keys), mutated by pop_kwarg
    kw_metaclass,   \* the value of the `metaclass` keyword, when given
    i,              \* loop index of the base loops
    new_bases,      \* Option<Vec>: [some, v]
    hooks,          \* log of the __mro_entries__ lookups and what each hook returned
    bases,          \* the base tuple in use
    orig_bases,     \* Option<tuple>: [some, v]
    metaclass,      \* the candidate / chosen metaclass object
    meta_ok,        \* TRUE in the Ok(metaclass) branch of the downcast
    meta_name,      \* name used in messages
    namespace,      \* [cls, keys, orig]: the namespace object, its keys and the
                    \* value stored under __orig_bases__
    classcell,      \* what the body returned: "none", "cell"
    cell,           \* contents of the class cell
    body_did,       \* what the class body did: [w, d, end]
    class,          \* the object the metaclass call returned
    class_attrs,    \* attributes __build_class__ has set on class: [name, value]
    result,         \* the PyResult handed to the caller
    events,         \* log of the calls made into user-visible code
    raised,         \* log of the errors the steps ran into: [op, err, at]
    stack,          \* the constructions suspended in user code that runs this one
    \* the argument handles (protocol.rs)
    param,          \* the handle type the native function declares
    obj,            \* the object handed to the native function: [id, cls, items]
    type_slots,     \* the slot table of every type descriptor
    callable,       \* PyResult<ArgCallable>
    call_result,    \* what ArgCallable::invoke returned
    iterable,       \* PyResult<ArgIterable<T>>, one per binding (1, 2)
    iters,          \* the adapter ArgIterable::iter returned, per binding
    cursor,         \* position of every iterator object
    mapping,        \* PyResult<ArgMapping>
    sequence,       \* PyResult<ArgSequence<T>>
    hevents         \* log of the user-level code run for the callable and the
                    \* iterable handles

handles == <<param, obj, type_slots, callable, call_result, iterable, iters, cursor,
             mapping, sequence, hevents>>

vars == <<pc, qualified_name, type_params, arg_bases, kwargs, kw_metaclass, i,
          new_bases, hooks, bases, orig_bases, metaclass, meta_ok, meta_name, namespace,
          classcell, cell, body_did, class, class_attrs, result, events, raised,
          stack, handles>>

----------------------------------------------------------------------------
(* Bounds *)

MaxBases == 2

----------------------------------------------------------------------------
(* The object universe: type objects with their single-inheritance parent  *)
(* (the MRO is the parent chain), and every object's own class.            *)

TypeObjs == {"object", "type", "MetaA", "MetaB", "MetaC", "MetaM",
             "ClsT", "ClsA", "ClsB", "ClsC", "ClsG"}

\* the parent of a type object in its MRO; "object" is the top
Parent(t) ==
    CASE t = "type"  -> "object"
      [] t = "MetaA" -> "type"
      [] t = "MetaB" -> "MetaA"
      [] t = "MetaC" -> "type"
      [] t = "MetaM" -> "type"
      [] t = "FunctorSub" -> "Functor"
      [] t = "LegacySub"  -> "Legacy"
      [] t = "DictSub"    -> "dict"
      [] t = "DictChild"  -> "dict"
      [] OTHER       -> "object"

\* obj.class()
ClassOf(o) ==
    CASE o = "MetaM" -> "MetaA"    \* a metaclass built by another metaclass
      [] o = "ClsA"  -> "MetaA"
      [] o = "ClsB"  -> "MetaB"
      [] o = "ClsC"  -> "MetaC"
      [] o = "inst"  -> "ClsT"     \* a plain instance, no __mro_entries__
      [] o = "gen"   -> "ClsG"     \* a generic alias, has __mro_entries__
      [] o = "func"  -> "ClsT"     \* a callable that is not a type
      [] OTHER       -> "type"

RECURSIVE Mro(_)
Mro(t) == IF t = "object" THEN <<"object">> ELSE <<t>> \o Mro(Parent(t))

Range(s) == {s[k] : k \in 1..Len(s)}

\* PyType::fast_issubclass: cls is in self's MRO
fast_issubclass(sub, cls) == cls \in Range(Mro(sub))

\* PyObject::fast_isinstance
fast_isinstance(o, cls) == fast_issubclass(ClassOf(o), cls)

type_type == "type"

\* downcast_exact::<PyType>: the object's class is exactly `type`
\* (mutant: every object passes)
downcast_exact_mut(o) == TRUE
downcast_exact(o) == ClassOf(o) = type_type

----------------------------------------------------------------------------
(* Inputs *)

\* the objects passed as bases: classes built by type, MetaA, MetaB and MetaC,
\* and two objects that are no classes
BaseObjs == {"ClsT", "ClsA", "ClsB", "ClsC", "inst", "gen"}

\* the values passed as the `metaclass` keyword
MetaKw == {"MetaB", "MetaM", "func"}

\* the qualified name and the keywords besides `metaclass` of a call
CallShapes == {[q |-> <<"Point">>, kw |-> {}],
               [q |-> <<"pkg", "Outer", "Inner">>, kw |-> {"flag"}]}

\* what function.__type_params__ gives: an error, no tuple, (), a non-empty tuple
TypeParamReads == {"error", "not_tuple", "empty", "tuple"}

BaseSeqs == UNION {[1..n -> BaseObjs] : n \in 0..MaxBases}

\* tuples a __mro_entries__ hook returns
EntryTuples == {<<>>, <<"ClsT">>, <<"ClsA", "ClsB">>}

None == [some |-> FALSE, v |-> <<>>]
Some(x) == [some |-> TRUE, v |-> x]

\* a PyResult: Ok(object) or Err(exception of a kind, with its message and the
\* names the message is formatted with)
NoResult == [tag |-> "none", kind |-> "-", msg |-> "-", a |-> "-", b |-> "-", c |-> "-"]
Ok(v) == [tag |-> "ok", kind |-> "-", msg |-> v, a |-> "-", b |-> "-", c |-> "-"]
ErrFmt(kind, msg, a, b) ==
    [tag |-> "err", kind |-> kind, msg |-> msg, a |-> a, b |-> b, c |-> "-"]
Err(kind, msg) == ErrFmt(kind, msg, "-", "-")

\* an error raised by user-level code reached through operation `op`
UserErr(op) == Err("UserError", op)

\* vm.new_type_error(msg)
new_type_error(msg) == Err("TypeError", msg)

\* qualified_name.split('.').next_back()
\* (mutant: the first component)
NameOf_mut(q) == q[1]
NameOf(q) == q[Len(q)]

----------------------------------------------------------------------------
(* What the code outside __build_class__ may answer *)

\* vm.get_attribute_opt(base, __mro_entries__): Err, None or Some(meth)
MroEntriesLookups(base) == IF base = "gen" THEN {"some", "error"} ELSE {"none"}

\* meth.call((bases,)): it raises, or returns something
MroEntriesReturns ==
    {[kind |-> "raise", v |-> <<>>], [kind |-> "not_tuple", v |-> <<>>]}
    \cup {[kind |-> "tuple", v |-> t] : t \in EntryTuples}

\* objects a __prepare__ hook may return: [cls, keys, orig]
EmptyDict == [cls |-> "dict", keys |-> {}, orig |-> None]
PreparedObjs == {EmptyDict,
                 [cls |-> "Mapping", keys |-> {}, orig |-> None],
                 [cls |-> "int", keys |-> {}, orig |-> None]}

\* the __prepare__ of the root type object: a fresh empty dict
TypePrepare == EmptyDict

\* lookup and call of metaclass.__prepare__: "error" (lookup fails), "absent",
\* "raise" (the hook raises) or the returned object
PrepareAnswers(m) ==
    IF m = type_type THEN {[kind |-> "object", obj |-> TypePrepare]}
    ELSE {[kind |-> k, obj |-> EmptyDict] : k \in {"error", "absent", "raise"}}
         \cup {[kind |-> "object", obj |-> o] : o \in PreparedObjs}

\* PyMapping::try_protocol succeeds on it
IsMapping(o) == o.cls \in {"dict", "Mapping", "DictSub", "DictChild"}

\* namespace.set_item(key, ..): a dict takes the key, a user mapping may raise
SetItemAnswers(ns) == IF ns.cls = "dict" THEN {"ok"} ELSE {"ok", "raise"}

\* namespace.del_item(key): removed; KeyError when absent; a user mapping may raise
DelItemAnswers(ns, key) ==
    (IF key \in ns.keys THEN {"removed"} ELSE {"key_error"})
    \cup (IF ns.cls = "dict" THEN {} ELSE {"raise"})

\* what a class body does to its locals before it returns or raises
BodyEffects == {[w |-> {"x", "y"}, d |-> {}],
                [w |-> {"x"}, d |-> {".type_params"}]}

\* how the body ends: it raises, or returns None, a cell (empty or already
\* holding an object) or some other object
BodyEnds == {"raise", "none", "cell_empty", "cell_twin", "other"}

\* the call of the metaclass: it raises, or returns a new object and leaves
\* the class cell alone ("ok") or stores the new object in it ("ok_fill")
\* the root type object called with no bases and no keywords builds a class
TypeNewSucceeds(m, bs, kw) == m = type_type /\ bs = <<>> /\ kw = {}

\* attributes can be set on a class built by the root type object
TypeSetAttrSucceeds(m) == m = type_type

CallAnswers(m, bs, kw, cc) ==
    (IF TypeNewSucceeds(m, bs, kw) THEN {} ELSE {"raise"})
    \cup {"ok"} \cup (IF cc = "cell" THEN {"ok_fill"} ELSE {})

\* class.set_attr x 2: both set, the first raises, the second raises
SetAttrAnswers(m) ==
    IF TypeSetAttrSucceeds(m) THEN {"ok"} ELSE {"ok", "raise1", "raise2"}

\* equality (__eq__) of class objects, as opposed to identity: "twin" is
\* another object that compares equal to "new"
EqKey(o) == IF o \in {"new", "twin"} THEN "K" ELSE o

----------------------------------------------------------------------------
(* The objects handed to the argument handles, and their type descriptors *)

\* bound: the longest element sequence of an object
MaxItems == 2

\* the types of the objects handed in; FunctorSub and LegacySub inherit their
\* only capability from their parent; DictSub and DictChild are subclasses of
\* dict, the first with a __getitem__ of its own, the second with nothing of
\* its own
HandleTypes == {"object", "function", "Functor", "FunctorSub", "Container",
                "Iterator", "Legacy", "LegacySub", "dict", "Mapping", "int",
                "DictSub", "DictChild"}

\* an absent slot
NoSlot == "-"

\* the slots a type descriptor defines itself: the call slot, the iterate
\* slot, the __getitem__ attribute and the mapping methods
SlotsOf(t) ==
    [call    |-> CASE t = "function" -> "function_call"
                   [] t = "Functor"  -> "Functor.__call__"
                   [] OTHER          -> NoSlot,
     iter    |-> CASE t = "Container" -> "Container.__iter__"
                   [] t = "Iterator"  -> "Iterator.__iter__"
                   [] t = "dict"      -> "dict_iter"
                   [] OTHER           -> NoSlot,
     getitem |-> CASE t = "Legacy"    -> "Legacy.__getitem__"
                   [] t = "dict"      -> "dict_getitem"
                   [] t = "Mapping"   -> "Mapping.__getitem__"
                   [] t = "DictSub"   -> "DictSub.__getitem__"
                   [] OTHER           -> NoSlot,
     mapping |-> CASE t = "dict"    -> "dict_as_mapping"
                   [] t = "Mapping" -> "Mapping_as_mapping"
                   [] t = "DictSub" -> "DictSub_as_mapping"
                   [] OTHER         -> NoSlot]

SlotTable == [t \in HandleTypes |-> SlotsOf(t)]

RECURSIVE FirstSlot(_, _, _)
FirstSlot(tbl, mro, cap) ==
    IF mro = <<>> THEN NoSlot
    ELSE IF tbl[Head(mro)][cap] # NoSlot THEN tbl[Head(mro)][cap]
    ELSE FirstSlot(tbl, Tail(mro), cap)

\* cls.mro_find_map(|x| x.slots.<cap>.load()): the nearest slot in the MRO
mro_find_map(tbl, cls, cap) == FirstSlot(tbl, Mro(cls), cap)

\* cls.has_attr(name): the type or one of its ancestors has the attribute
has_attr(tbl, cls, name) == mro_find_map(tbl, cls, name) # NoSlot

\* raw elements: two that convert to T, one that does not ("s"), and one
\* whose pull raises ("boom")
RawItems == {"i1", "i2", "s", "boom"}

ItemSeqs == UNION {[1..n -> RawItems] : n \in 0..MaxItems}

\* the element sequences tried for the objects of a type
Contents(t) ==
    CASE t \in {"Container", "Iterator", "Legacy"} -> ItemSeqs
      [] t \in {"LegacySub", "dict"}               -> {<<>>, <<"i1", "i2">>}
      [] OTHER                                      -> {<<>>}

NoObj == [id |-> "-", cls |-> "-", items |-> <<>>]

\* the objects a caller may hand in
HObjects ==
    UNION {{[id |-> "src", cls |-> t, items |-> s] : s \in Contents(t)} :
              t \in HandleTypes \ {"object"}}

\* another object of the same type with the same elements
Twin(o) == [o EXCEPT !.id = "twin"]

\* a handle not bound yet, a bound handle (the object and the resolved slot),
\* a failed conversion
NoHandle == [tag |-> "none", obj |-> NoObj, slot |-> NoSlot, err |-> NoResult]
HOk(o, slot) == [tag |-> "ok", obj |-> o, slot |-> slot, err |-> NoResult]
HErr(e) == [tag |-> "err", obj |-> NoObj, slot |-> NoSlot, err |-> e]

\* the adapter of one binding: not created ("none"), "active" over iterator
\* object `it`, exhausted ("done"), or iter() "failed"; `fallback` tells a
\* PySequenceIterator from the object a slot returned; `out` are the results
\* of the pulls so far
NoIter == [st |-> "none", it |-> 0, fallback |-> FALSE, out |-> <<>>, err |-> NoResult]

\* the result of one pull: Ok(T) or Err
POk(v) == [ok |-> TRUE, v |-> v, err |-> NoResult]
PErr(e) == [ok |-> FALSE, v |-> "-", err |-> e]

\* PyResult<Vec<T>> and PyResult<ArgSequence<T>>, with the log of the
\* user-level code the extraction ran
NoSeq == [tag |-> "none", vec |-> <<>>, err |-> NoResult, log |-> <<>>]
SeqOk(v, log) == [tag |-> "ok", vec |-> v, err |-> NoResult, log |-> log]
SeqErr(e, log) == [tag |-> "err", vec |-> <<>>, err |-> e, log |-> log]

\* the log entry of user-level code run for a handle: by "callable",
\* "iterable" (binding h) or "sequence"; pos is the index or position asked
HEv(op, by, h, pos) == [op |-> op, by |-> by, h |-> h, pos |-> pos]

----------------------------------------------------------------------------
(* Binding: the TryFromObject implementations of protocol.rs *)

\* obj.to_callable(): the call slot of the object's type chain, if any
to_callable(tbl, o) == mro_find_map(tbl, o.cls, "call")

\* the message of line 62
NotCallable(cls) == ErrFmt("TypeError", "'{}' object is not callable", cls, "-")

\* ArgCallable::try_from_object (lines 58-68)
\* (mutant: the handle is built whether or not a slot was found)
ArgCallable_try_from_object_mut(tbl, o) == HOk(o, to_callable(tbl, o))
ArgCallable_try_from_object(tbl, o) ==
    LET call == to_callable(tbl, o) IN
    IF call = NoSlot THEN HErr(NotCallable(o.cls)) ELSE HOk(o, call)

\* the message of line 112
NotIterable(cls) == ErrFmt("TypeError", "'{}' object is not iterable", cls, "-")

\* ArgIterable::try_from_object (lines 103-122)
\* (mutant: `||` for `&&`, an object without iterate slot is always refused)
ArgIterable_try_from_object_mut(tbl, o) ==
    LET iter_fn == mro_find_map(tbl, o.cls, "iter") IN
    IF iter_fn = NoSlot \/ ~has_attr(tbl, o.cls, "getitem")
    THEN HErr(NotIterable(o.cls))
    ELSE HOk(o, iter_fn)
ArgIterable_try_from_object(tbl, o) ==
    LET iter_fn == mro_find_map(tbl, o.cls, "iter") IN
    IF iter_fn = NoSlot /\ ~has_attr(tbl, o.cls, "getitem")
    THEN HErr(NotIterable(o.cls))
    ELSE HOk(o, iter_fn)

\* the error of PyMapping::try_protocol
NotAMappingObject(cls) == ErrFmt("TypeError", "{} is not a mapping object", cls, "-")

\* PyMapping::try_protocol(obj): the object with the mapping methods of its
\* type chain, or an error
PyMapping_try_protocol(tbl, o) ==
    LET methods == mro_find_map(tbl, o.cls, "mapping") IN
    IF methods = NoSlot THEN HErr(NotAMappingObject(o.cls)) ELSE HOk(o, methods)

\* PyDict::as_mapping()
PyDict_as_mapping == "dict_as_mapping"

\* ArgMapping::from_dict_exact (lines 137-143): no verification, the methods
\* of dict
ArgMapping_from_dict_exact(dict) == HOk(dict, PyDict_as_mapping)

\* ArgMapping::try_from_object (lines 190-196)
\* (mutant: no verification, the methods of dict whatever the object)
ArgMapping_try_from_object_mut(tbl, o) == HOk(o, PyDict_as_mapping)
ArgMapping_try_from_object(tbl, o) ==
    LET protocol == PyMapping_try_protocol(tbl, o) IN
    IF protocol.tag = "err" THEN protocol ELSE HOk(o, protocol.slot)

\* the handles before the native function has bound anything
HIdle ==
    /\ type_slots = SlotTable
    /\ callable = NoHandle
    /\ call_result = NoResult
    /\ iterable = [h \in 1..2 |-> NoHandle]
    /\ iters = [h \in 1..2 |-> NoIter]
    /\ cursor = [it \in 0..2 |-> 0]
    /\ mapping = NoHandle
    /\ sequence = NoSeq
    /\ hevents = <<>>

----------------------------------------------------------------------------
(* Helpers of the actions *)

Ev(op, target, name, bs, ns, kw) ==
    [op |-> op, target |-> target, name |-> name, bases |-> bs, ns |-> ns, kw |-> kw]

\* the function returns r to its caller
Return(r) == pc' = "done" /\ result' = r

\* the log entry of an error e met in operation op, after the calls made so far
Met(op, e, evs) == [op |-> op, err |-> e, at |-> Len(evs)]

\* operation op failed with e and `?` (or `return Err`) hands e to the caller
Fail(op, e, evs) == raised' = Append(raised, Met(op, e, evs)) /\ Return(e)

\* user-level operation op raised and `?` hands its error to the caller
Raise(op, evs) == Fail(op, UserErr(op), evs)

\* user-level operation op raised and the code drops the error
Drop(op, evs) == raised' = Append(raised, Met(op, UserErr(op), evs))

\* what no step of a construction changes: its arguments and the suspended
\* constructions of its callers
inputs == <<qualified_name, type_params, arg_bases, kw_metaclass, stack>>
phase1 == <<i, new_bases, hooks>>
phase2 == <<bases, orig_bases, metaclass, meta_ok, meta_name, kwargs>>
phase34 == <<namespace, classcell, cell, body_did>>
phase5 == <<class, class_attrs>>

Init ==
    /\ pc = "bases"
    /\ type_params \in TypeParamReads
    /\ arg_bases \in BaseSeqs
    /\ kw_metaclass \in {"absent"} \cup MetaKw
    /\ \E shape \in CallShapes :
          /\ qualified_name = shape.q
          /\ kwargs = shape.kw \cup (IF kw_metaclass = "absent" THEN {} ELSE {"metaclass"})
    /\ i = 1
    /\ new_bases = None
    /\ hooks = <<>>
    /\ bases = arg_bases
    /\ orig_bases = None
    /\ metaclass = "-"
    /\ meta_ok = FALSE
    /\ meta_name = "-"
    /\ namespace = [cls |-> "-", keys |-> {}, orig |-> None]
    /\ classcell = "-"
    /\ cell = "empty"
    /\ body_did = [w |-> {}, d |-> {}, end |-> "-"]
    /\ class = "-"
    /\ class_attrs = {}
    /\ result = NoResult
    /\ events = <<>>
    /\ raised = <<>>
    /\ stack = <<>>
    /\ param = "-"
    /\ obj = NoObj
    /\ HIdle

----------------------------------------------------------------------------
(* Phase 1: base normalization (lines 885-911), one loop iteration *)

\* new_bases.push(base) when new_bases is Some
PushIfSome(nb, base) == IF nb.some THEN Some(Append(nb.v, base)) ELSE nb

\* new_bases.get_or_insert_with(|| bases[..i].to_vec()).extend_from_slice(entries)
\* (mutant: the whole tuple instead of the bases before this one)
SpliceEntries_mut(nb, bs, idx, entries) ==
    Some((IF nb.some THEN nb.v ELSE bs) \o entries)
SpliceEntries(nb, bs, idx, entries) ==
    Some((IF nb.some THEN nb.v ELSE SubSeq(bs, 1, idx - 1)) \o entries)

\* the log entry of the lookup of __mro_entries__ on the base at position idx
\* and of what the hook, when there is one, returned
NoReturn == [kind |-> "-", v |-> <<>>]
Hook(idx, base, look, ret) == [i |-> idx, base |-> base, look |-> look, ret |-> ret]

\* the message of line 908
\* (mutant: another kind of error)
NotATuple_mut == Err("ValueError", "__mro_entries__ must return a tuple")
NotATuple == new_type_error("__mro_entries__ must return a tuple")

UpdateBases ==
    /\ pc = "bases"
    /\ i <= Len(bases)
    /\ LET base == bases[i] IN
       IF fast_isinstance(base, type_type)
       THEN /\ new_bases' = PushIfSome(new_bases, base)
            /\ i' = i + 1
            /\ UNCHANGED <<pc, result, events, raised, hooks>>
       ELSE \E look \in MroEntriesLookups(base) :
              CASE look = "error" ->
                     /\ hooks' = Append(hooks, Hook(i, base, look, NoReturn))
                     /\ Raise("mro_entries_lookup", events)
                     /\ UNCHANGED <<i, new_bases, events>>
                [] look = "none" ->
                     /\ hooks' = Append(hooks, Hook(i, base, look, NoReturn))
                     /\ new_bases' = PushIfSome(new_bases, base)
                     /\ i' = i + 1
                     /\ UNCHANGED <<pc, result, events, raised>>
                [] look = "some" ->
                     /\ events' = Append(events,
                            Ev("mro_entries", base, "-", bases, {}, {}))
                     /\ \E ret \in MroEntriesReturns :
                          /\ hooks' = Append(hooks, Hook(i, base, look, ret))
                          /\ CASE ret.kind = "raise" ->
                                 /\ Raise("mro_entries", events')
                                 /\ UNCHANGED <<i, new_bases>>
                            [] ret.kind = "not_tuple" ->
                                 /\ Fail("not_tuple", NotATuple, events')
                                 /\ UNCHANGED <<i, new_bases>>
                            [] OTHER ->
                                 /\ new_bases' = SpliceEntries(new_bases, bases, i, ret.v)
                                 /\ i' = i + 1
                                 /\ UNCHANGED <<pc, result, raised>>
    /\ UNCHANGED <<handles, inputs, phase2, phase34, phase5>>

\* (mutant: the keyword is read and left in the keyword arguments)
PopMetaclass_mut ==
    /\ pc = "bases"
    /\ i > Len(bases)
    /\ orig_bases' = IF new_bases.some THEN Some(bases) ELSE None
    /\ bases' = IF new_bases.some THEN new_bases.v ELSE bases
    /\ kwargs' = kwargs
    /\ IF "metaclass" \in kwargs
       THEN /\ metaclass' = kw_metaclass
            /\ meta_ok' = downcast_exact(kw_metaclass)
       ELSE /\ metaclass' = type_type
            /\ meta_ok' = TRUE
    /\ IF meta_ok'
       THEN pc' = "meta" /\ meta_name' = meta_name
       ELSE pc' = "prepare" /\ meta_name' = "<metaclass>"
    /\ i' = 1
    /\ UNCHANGED <<handles, inputs, new_bases, hooks, phase34, phase5, result, events,
                   raised>>

(* Lines 913-927: choose the base tuple, pop and downcast the metaclass *)
PopMetaclass ==
    /\ pc = "bases"
    /\ i > Len(bases)
    /\ orig_bases' = IF new_bases.some THEN Some(bases) ELSE None
    /\ bases' = IF new_bases.some THEN new_bases.v ELSE bases
    /\ kwargs' = kwargs \ {"metaclass"}
    /\ IF "metaclass" \in kwargs
       THEN /\ metaclass' = kw_metaclass
            /\ meta_ok' = downcast_exact(kw_metaclass)
       ELSE /\ metaclass' = type_type
            /\ meta_ok' = TRUE
    /\ IF meta_ok'
       THEN pc' = "meta" /\ meta_name' = meta_name
       ELSE pc' = "prepare" /\ meta_name' = "<metaclass>"
    /\ i' = 1
    /\ UNCHANGED <<handles, inputs, new_bases, hooks, phase34, phase5, result, events,
                   raised>>

----------------------------------------------------------------------------
(* Phase 2: metaclass determination (lines 929-946) *)

\* one iteration of the loop over the bases: the candidate after this base,
\* or a conflict
\* (mutant: the conflict test is lost)
CalculateStep_mut(m, base_class) ==
    IF fast_issubclass(base_class, m)
    THEN [conflict |-> FALSE, m |-> base_class]
    ELSE [conflict |-> FALSE, m |-> m]
CalculateStep(m, base_class) ==
    IF fast_issubclass(base_class, m)
    THEN [conflict |-> FALSE, m |-> base_class]
    ELSE IF ~fast_issubclass(m, base_class)
         THEN [conflict |-> TRUE, m |-> m]
         ELSE [conflict |-> FALSE, m |-> m]

MetaclassConflict ==
    new_type_error("metaclass conflict: the metaclass of a derived class must be a (non-strict) subclass of the metaclasses of all its bases")

CalculateMetaclass ==
    /\ pc = "meta"
    /\ i <= Len(bases)
    /\ LET step == CalculateStep(metaclass, ClassOf(bases[i])) IN
       IF step.conflict
       THEN /\ Fail("conflict", MetaclassConflict, events)
            /\ UNCHANGED <<i, metaclass>>
       ELSE /\ metaclass' = step.m
            /\ i' = i + 1
            /\ UNCHANGED <<pc, result, raised>>
    /\ UNCHANGED <<handles, inputs, new_bases, hooks, bases, orig_bases, meta_ok, meta_name,
                   kwargs,
                   phase34, phase5, events>>

(* Lines 942-943: the loop is over, meta_name = metaclass.slot_name() *)
MetaclassChosen ==
    /\ pc = "meta"
    /\ i > Len(bases)
    /\ meta_name' = metaclass
    /\ pc' = "prepare"
    /\ UNCHANGED <<handles, inputs, phase1, bases, orig_bases, metaclass, meta_ok, kwargs,
                   phase34, phase5, result, events, raised>>

----------------------------------------------------------------------------
(* Phase 3: namespace preparation (lines 950-983) *)

(* Lines 951-957: look __prepare__ up on the metaclass and call it *)
Prepare ==
    /\ pc = "prepare"
    /\ \E ans \in PrepareAnswers(metaclass) :
         CASE ans.kind = "error" ->
                /\ Raise("prepare_lookup", events)
                /\ UNCHANGED <<namespace, events>>
           [] ans.kind = "absent" ->
                /\ namespace' = EmptyDict       \* vm.ctx.new_dict()
                /\ pc' = "mapping"
                /\ UNCHANGED <<result, events, raised>>
           [] ans.kind = "raise" ->
                /\ events' = Append(events,
                       Ev("prepare", metaclass, NameOf(qualified_name), bases, {}, kwargs))
                /\ Raise("prepare", events')
                /\ UNCHANGED namespace
           [] OTHER ->
                /\ events' = Append(events,
                       Ev("prepare", metaclass, NameOf(qualified_name), bases, {}, kwargs))
                /\ namespace' = ans.obj
                /\ pc' = "mapping"
                /\ UNCHANGED <<result, raised>>
    /\ UNCHANGED <<handles, inputs, phase1, phase2, classcell, cell, body_did, phase5>>

\* the message of lines 961-965
NotAMapping(name, cls) ==
    ErrFmt("TypeError", "{}.__prepare__() must return a mapping, not {}", name, cls)

\* (mutant: the error of the conversion is dropped instead of returned)
CheckMapping_mut ==
    /\ pc = "mapping"
    /\ pc' = "inject"
    /\ IF ArgMapping_try_from_object(type_slots, namespace).tag = "ok"
       THEN UNCHANGED raised
       ELSE raised' = Append(raised,
                Met("not_mapping", NotAMapping(meta_name, namespace.cls), events))
    /\ UNCHANGED <<handles, inputs, phase1, phase2, phase34, phase5, result, events>>

(* Lines 959-966: accept any PyMapping as namespace *)
CheckMapping ==
    /\ pc = "mapping"
    /\ IF ArgMapping_try_from_object(type_slots, namespace).tag = "ok"
       THEN pc' = "inject" /\ UNCHANGED <<result, raised>>
       ELSE Fail("not_mapping", NotAMapping(meta_name, namespace.cls), events)
    /\ UNCHANGED <<handles, inputs, phase1, phase2, phase34, phase5, events>>

\* lines 969-975 and 1006-1011: the function has a non-empty tuple of type parameters
\* (mutant: the emptiness test is lost)
HasTypeParams_mut(tp) == tp \in {"tuple", "empty"}
HasTypeParams(tp) == tp = "tuple"

(* Lines 968-983: set .type_params in the namespace before calling the body *)
InjectTypeParams ==
    /\ pc = "inject"
    /\ IF HasTypeParams(type_params)
       THEN \E ans \in SetItemAnswers(namespace) :
              IF ans = "ok"
              THEN /\ namespace' = [namespace EXCEPT !.keys = @ \cup {".type_params"}]
                   /\ pc' = "body"
                   /\ UNCHANGED <<result, raised>>
              ELSE /\ Raise("set_item", events)
                   /\ UNCHANGED namespace
       ELSE /\ pc' = "body"
            \* an error of get_attr is dropped by `if let Ok`
            /\ IF type_params = "error"
               THEN Drop("get_type_params", events) ELSE UNCHANGED raised
            /\ UNCHANGED <<namespace, result>>
    /\ UNCHANGED <<handles, inputs, phase1, phase2, classcell, cell, body_did, phase5, events>>

----------------------------------------------------------------------------
(* Phase 4: body execution (lines 985-1000) *)

\* (mutant: a body that raises has the reserved key cleaned up behind it)
InvokeBody_mut ==
    /\ pc = "body"
    /\ events' = Append(events, Ev("body", "-", "-", <<>>, namespace.keys, {}))
    /\ \E eff \in BodyEffects, end \in BodyEnds :
         /\ namespace' = [namespace EXCEPT !.keys =
                IF end = "raise" THEN ((@ \ eff.d) \cup eff.w) \ {".type_params"}
                ELSE (@ \ eff.d) \cup eff.w]
         /\ body_did' = [w |-> eff.w, d |-> eff.d, end |-> end]
         /\ CASE end = "raise" ->
                   /\ Raise("body", events')
                   /\ UNCHANGED <<classcell, cell>>
              [] end = "other" ->
                   /\ Fail("not_cell", new_type_error("Expected type 'cell'"), events')
                   /\ UNCHANGED <<classcell, cell>>
              [] end = "none" ->
                   /\ classcell' = "none"
                   /\ pc' = "orig"
                   /\ UNCHANGED <<cell, result, raised>>
              [] end = "cell_empty" ->
                   /\ classcell' = "cell"
                   /\ cell' = "empty"
                   /\ pc' = "orig"
                   /\ UNCHANGED <<result, raised>>
              [] end = "cell_twin" ->
                   /\ classcell' = "cell"
                   /\ cell' = "twin"
                   /\ pc' = "orig"
                   /\ UNCHANGED <<result, raised>>
    /\ UNCHANGED <<handles, inputs, phase1, phase2, phase5>>

(* Lines 985-986: run the body with the namespace as locals, convert what it
   returns to Option<PyCellRef> *)
InvokeBody ==
    /\ pc = "body"
    /\ events' = Append(events, Ev("body", "-", "-", <<>>, namespace.keys, {}))
    /\ \E eff \in BodyEffects, end \in BodyEnds :
         /\ namespace' = [namespace EXCEPT !.keys = (@ \ eff.d) \cup eff.w]
         /\ body_did' = [w |-> eff.w, d |-> eff.d, end |-> end]
         /\ CASE end = "raise" ->
                   /\ Raise("body", events')
                   /\ UNCHANGED <<classcell, cell>>
              [] end = "other" ->
                   /\ Fail("not_cell", new_type_error("Expected type 'cell'"), events')
                   /\ UNCHANGED <<classcell, cell>>
              [] end = "none" ->
                   /\ classcell' = "none"
                   /\ pc' = "orig"
                   /\ UNCHANGED <<cell, result, raised>>
              [] end = "cell_empty" ->
                   /\ classcell' = "cell"
                   /\ cell' = "empty"
                   /\ pc' = "orig"
                   /\ UNCHANGED <<result, raised>>
              [] end = "cell_twin" ->
                   /\ classcell' = "cell"
                   /\ cell' = "twin"
                   /\ pc' = "orig"
                   /\ UNCHANGED <<result, raised>>
    /\ UNCHANGED <<handles, inputs, phase1, phase2, phase5>>

\* (mutant: the normalized tuple is recorded)
SetOrigBases_mut ==
    /\ pc = "orig"
    /\ IF orig_bases.some
       THEN \E ans \in SetItemAnswers(namespace) :
              IF ans = "ok"
              THEN /\ namespace' = [namespace EXCEPT !.keys = @ \cup {"__orig_bases__"},
                                                     !.orig = Some(bases)]
                   /\ pc' = "del"
                   /\ UNCHANGED <<result, raised>>
              ELSE /\ Raise("set_item", events)
                   /\ UNCHANGED namespace
       ELSE /\ pc' = "del"
            /\ UNCHANGED <<namespace, result, raised>>
    /\ UNCHANGED <<handles, inputs, phase1, phase2, classcell, cell, body_did, phase5, events>>

(* Lines 988-994: record the original bases *)
SetOrigBases ==
    /\ pc = "orig"
    /\ IF orig_bases.some
       THEN \E ans \in SetItemAnswers(namespace) :
              IF ans = "ok"
              THEN /\ namespace' = [namespace EXCEPT !.keys = @ \cup {"__orig_bases__"},
                                                     !.orig = orig_bases]
                   /\ pc' = "del"
                   /\ UNCHANGED <<result, raised>>
              ELSE /\ Raise("set_item", events)
                   /\ UNCHANGED namespace
       ELSE /\ pc' = "del"
            /\ UNCHANGED <<namespace, result, raised>>
    /\ UNCHANGED <<handles, inputs, phase1, phase2, classcell, cell, body_did, phase5, events>>

\* (mutant: the removal is forgotten)
RemoveTypeParams_mut ==
    /\ pc = "del"
    /\ pc' = "call"
    /\ UNCHANGED <<handles, inputs, phase1, phase2, phase34, phase5, result, events, raised>>

(* Lines 996-1000: del_item(".type_params").ok() *)
RemoveTypeParams ==
    /\ pc = "del"
    /\ \E ans \in DelItemAnswers(namespace, ".type_params") :
         /\ namespace' = IF ans = "removed"
                         THEN [namespace EXCEPT !.keys = @ \ {".type_params"}]
                         ELSE namespace
         /\ IF ans = "raise" THEN Drop("del_item", events) ELSE UNCHANGED raised
    /\ pc' = "call"
    /\ UNCHANGED <<handles, inputs, phase1, phase2, classcell, cell, body_did, phase5, result,
                   events>>

----------------------------------------------------------------------------
(* Phase 5: metaclass invocation and cell verification (lines 1002-1033) *)

(* Lines 1002-1003 *)
CallMetaclass ==
    /\ pc = "call"
    /\ events' = Append(events,
           Ev("call", metaclass, NameOf(qualified_name), bases, namespace.keys, kwargs))
    /\ \E ans \in CallAnswers(metaclass, bases, kwargs, classcell) :
         CASE ans = "raise" ->
                /\ Raise("call", events')
                /\ UNCHANGED <<class, cell>>
           [] ans = "ok" ->
                /\ class' = "new"
                /\ pc' = "attach"
                /\ UNCHANGED <<cell, result, raised>>
           [] ans = "ok_fill" ->
                /\ class' = "new"
                /\ cell' = "new"
                /\ pc' = "attach"
                /\ UNCHANGED <<result, raised>>
    /\ UNCHANGED <<handles, inputs, phase1, phase2, namespace, classcell, body_did, class_attrs>>

\* class.set_attr(name, value)
Attr(name, value) == [name |-> name, value |-> value]

(* Lines 1005-1017: set __type_params__ and __parameters__ on the class *)
AttachTypeParams ==
    /\ pc = "attach"
    /\ IF HasTypeParams(type_params)
       THEN \E ans \in SetAttrAnswers(metaclass) :
              CASE ans = "ok" ->
                     /\ class_attrs' = class_attrs \cup
                            {Attr("__type_params__", type_params),
                             Attr("__parameters__", type_params)}
                     /\ pc' = "verify"
                     /\ UNCHANGED <<result, raised>>
                [] ans = "raise1" ->
                     /\ Raise("set_attr", events)
                     /\ UNCHANGED class_attrs
                [] ans = "raise2" ->
                     /\ class_attrs' = class_attrs \cup {Attr("__type_params__", type_params)}
                     /\ Raise("set_attr", events)
       ELSE /\ pc' = "verify"
            /\ IF type_params = "error"
               THEN Drop("get_type_params", events) ELSE UNCHANGED raised
            /\ UNCHANGED <<class_attrs, result>>
    /\ UNCHANGED <<handles, inputs, phase1, phase2, phase34, class, events>>

\* lines 1019-1033: the result, given what the body returned, what the cell
\* holds and the class
ClassNotSet(name, cls) ==
    ErrFmt("TypeError",
           "__class__ not set defining {} as {}. Was __classcell__ propagated to type.__new__?",
           name, cls)

ClassMismatch(content, name, cls) ==
    [ErrFmt("TypeError", "__class__ set to {} defining {} as {}", name, cls)
        EXCEPT !.c = content]

\* (mutant: equality instead of identity)
VerifyResult_mut(cc, content, name, cls) ==
    IF cc = "cell"
    THEN IF content = "empty" THEN ClassNotSet(name, cls)
         ELSE IF EqKey(content) # EqKey(cls) THEN ClassMismatch(content, name, cls)
         ELSE Ok(cls)
    ELSE Ok(cls)
VerifyResult(cc, content, name, cls) ==
    IF cc = "cell"
    THEN IF content = "empty" THEN ClassNotSet(name, cls)
         ELSE IF content # cls THEN ClassMismatch(content, name, cls)
         ELSE Ok(cls)
    ELSE Ok(cls)

VerifyClassCell ==
    /\ pc = "verify"
    /\ LET r == VerifyResult(classcell, cell, meta_name, class) IN
       IF r.tag = "err"
       THEN Fail("verify", r, events)
       ELSE Return(r) /\ UNCHANGED raised
    /\ UNCHANGED <<handles, inputs, phase1, phase2, phase34, phase5, events>>

----------------------------------------------------------------------------

Next ==
    \/ UpdateBases
    \/ PopMetaclass
    \/ CalculateMetaclass
    \/ MetaclassChosen
    \/ Prepare
    \/ CheckMapping
    \/ InjectTypeParams
    \/ InvokeBody
    \/ SetOrigBases
    \/ RemoveTypeParams
    \/ CallMetaclass
    \/ AttachTypeParams
    \/ VerifyClassCell

Spec == Init /\ [][Next]_vars

----------------------------------------------------------------------------
(* The argument handles in use (protocol.rs): a native function is handed  *)
(* one object, binds handles to it and uses them, in any order.            *)

build == <<pc, qualified_name, type_params, arg_bases, kwargs, kw_metaclass, i,
           new_bases, hooks, bases, orig_bases, metaclass, meta_ok, meta_name, namespace,
           classcell, cell, body_did, class, class_attrs, result, events, raised,
           stack>>

\* no class is under construction
BuildIdle ==
    /\ pc = "off"
    /\ qualified_name = <<"Point">> /\ type_params = "empty" /\ arg_bases = <<>>
    /\ kwargs = {} /\ kw_metaclass = "absent"
    /\ i = 1 /\ new_bases = None /\ hooks = <<>> /\ bases = <<>> /\ orig_bases = None
    /\ metaclass = "-" /\ meta_ok = FALSE /\ meta_name = "-"
    /\ namespace = [cls |-> "-", keys |-> {}, orig |-> None]
    /\ classcell = "-" /\ cell = "empty"
    /\ body_did = [w |-> {}, d |-> {}, end |-> "-"]
    /\ class = "-" /\ class_attrs = {}
    /\ result = NoResult /\ events = <<>> /\ raised = <<>>
    /\ stack = <<>>

\* the handle types a native function declares for its parameter: a
\* callable, a mapping, or iterables and a sequence
ParamTypes == {"callable", "mapping", "iterable"}

HInit ==
    /\ BuildIdle
    /\ param \in ParamTypes
    /\ obj \in HObjects
    /\ HIdle

\* T::try_from_object(raw): the conversion of one element
TryConvert(raw) ==
    CASE raw = "i1" -> POk("1")
      [] raw = "i2" -> POk("2")
      [] OTHER      -> PErr(Err("TypeError", "conversion"))

\* what calling an iterate slot on the object gives: the object itself (an
\* iterator), a new iterator, or an error
IterSlotAnswers(f) ==
    CASE f = "Iterator.__iter__"  -> {"self"}
      [] f = "Container.__iter__" -> {"fresh", "raise"}
      [] OTHER                    -> {"fresh"}

\* the raw element an iterator over `items` gives at position pos (counted
\* from 0), "stop" past the end
ElementAt(items, pos) == IF pos < Len(items) THEN items[pos + 1] ELSE "stop"

(* ArgCallable::try_from_object applied to the argument *)
BindCallable ==
    /\ param = "callable"
    /\ callable = NoHandle
    /\ callable' = ArgCallable_try_from_object(type_slots, obj)
    /\ UNCHANGED <<build, param, obj, type_slots, call_result, iterable, iters, cursor,
                   mapping, sequence, hevents>>

\* what a call through a call slot gives: the result of the callee or the
\* error it raised
CalleeAnswers == {Ok("returned"), UserErr("call")}

\* (mutant: the call slot is looked up again in the type chain at each call)
Invoke_mut ==
    /\ callable.tag = "ok"
    /\ call_result = NoResult
    /\ hevents' = Append(hevents,
           HEv(to_callable(type_slots, callable.obj), "callable", 0, 0))
    /\ call_result' \in CalleeAnswers
    /\ UNCHANGED <<build, param, obj, type_slots, callable, iterable, iters, cursor,
                   mapping, sequence>>

(* ArgCallable::invoke (lines 20-26): (self.call)(&self.obj, args, vm) *)
Invoke ==
    /\ callable.tag = "ok"
    /\ call_result = NoResult
    /\ hevents' = Append(hevents, HEv(callable.slot, "callable", 0, 0))
    /\ call_result' \in CalleeAnswers
    /\ UNCHANGED <<build, param, obj, type_slots, callable, iterable, iters, cursor,
                   mapping, sequence>>

\* (mutant: the iterator is made while binding: the iterate slot is called)
BindIterable_mut(h) ==
    /\ param = "iterable"
    /\ iterable[h] = NoHandle
    /\ iterable' = [iterable EXCEPT ![h] = ArgIterable_try_from_object(type_slots, obj)]
    /\ hevents' = IF iterable'[h].tag = "ok" /\ iterable'[h].slot # NoSlot
                  THEN Append(hevents, HEv(iterable'[h].slot, "iterable", h, 0))
                  ELSE hevents
    /\ UNCHANGED <<build, param, obj, type_slots, callable, call_result, iters, cursor,
                   mapping, sequence>>

(* ArgIterable::try_from_object applied to the argument, for binding h *)
BindIterable(h) ==
    /\ param = "iterable"
    /\ iterable[h] = NoHandle
    /\ iterable' = [iterable EXCEPT ![h] = ArgIterable_try_from_object(type_slots, obj)]
    /\ UNCHANGED <<build, param, obj, type_slots, callable, call_result, iters, cursor,
                   mapping, sequence, hevents>>

(* ArgMapping::try_from_object applied to the argument *)
BindMapping ==
    /\ param = "mapping"
    /\ mapping = NoHandle
    /\ mapping' = ArgMapping_try_from_object(type_slots, obj)
    /\ UNCHANGED <<build, param, obj, type_slots, callable, call_result, iterable, iters,
                   cursor, sequence, hevents>>

\* the adapter over iterator object it
\* (mutant: the adapter stops by itself: it is handed out already exhausted)
Adapter_mut(it, fb) ==
    [st |-> "done", it |-> it, fallback |-> fb, out |-> <<>>, err |-> NoResult]
Adapter(it, fb) ==
    [st |-> "active", it |-> it, fallback |-> fb, out |-> <<>>, err |-> NoResult]

\* `?` on the call of the iterate slot
FailedIter(e) == [NoIter EXCEPT !.st = "failed", !.err = e]

\* (mutant: without an iterate slot iter() fails, no PySequenceIterator is made)
Iter_mut_nofallback(h) ==
    /\ iterable[h].tag = "ok"
    /\ iters[h].st = "none"
    /\ IF iterable[h].slot # NoSlot
       THEN /\ hevents' = Append(hevents, HEv(iterable[h].slot, "iterable", h, 0))
            /\ iters' = [iters EXCEPT ![h] = Adapter(h, FALSE)]
            /\ cursor' = [cursor EXCEPT ![h] = 0]
       ELSE /\ iters' = [iters EXCEPT ![h] = FailedIter(NotIterable(iterable[h].obj.cls))]
            /\ UNCHANGED <<cursor, hevents>>
    /\ UNCHANGED <<build, param, obj, type_slots, callable, call_result, iterable,
                   mapping, sequence>>

\* (mutant: the iterable itself is wrapped as the iterator, no slot is called
\* and no PySequenceIterator is made: the bindings share one position)
Iter_mut(h) ==
    /\ iterable[h].tag = "ok"
    /\ iters[h].st = "none"
    /\ iters' = [iters EXCEPT ![h] = Adapter(0, FALSE)]
    /\ UNCHANGED <<build, param, obj, type_slots, callable, call_result, iterable, cursor,
                   mapping, sequence, hevents>>

(* ArgIterable::iter (lines 94-100): Some(f) => f(iterable)?, None =>
   PySequenceIterator::new(iterable)?; binding h gets iterator object h unless
   the slot returns the object itself (iterator object 0) *)
Iter(h) ==
    /\ iterable[h].tag = "ok"
    /\ iters[h].st = "none"
    /\ IF iterable[h].slot # NoSlot
       THEN /\ hevents' = Append(hevents, HEv(iterable[h].slot, "iterable", h, 0))
            /\ \E ans \in IterSlotAnswers(iterable[h].slot) :
                 CASE ans = "raise" ->
                        /\ iters' = [iters EXCEPT ![h] = FailedIter(UserErr("iter"))]
                        /\ UNCHANGED cursor
                   [] ans = "self" ->
                        /\ iters' = [iters EXCEPT ![h] = Adapter(0, FALSE)]
                        /\ UNCHANGED cursor
                   [] ans = "fresh" ->
                        /\ iters' = [iters EXCEPT ![h] = Adapter(h, FALSE)]
                        /\ cursor' = [cursor EXCEPT ![h] = 0]
       ELSE /\ iters' = [iters EXCEPT ![h] = Adapter(h, TRUE)]
            /\ cursor' = [cursor EXCEPT ![h] = 0]
            /\ UNCHANGED hevents
    /\ UNCHANGED <<build, param, obj, type_slots, callable, call_result, iterable,
                   mapping, sequence>>

\* obj[idx] through the __getitem__ of the type chain: the element, "stop"
\* for the out-of-range signal (IndexError), "boom" for any other error
GetItem(tbl, o, idx) ==
    IF ~has_attr(tbl, o.cls, "getitem") THEN "boom" ELSE ElementAt(o.items, idx)

(* One pull from the adapter of binding h (PyIterIter::next): advance the
   iterator, convert what it yields.  A PySequenceIterator subscripts the
   object at its position and is exhausted (position -1) by any error. *)
Pull(h) ==
    /\ iters[h].st = "active"
    /\ LET it == iters[h].it
           pos == cursor[it]
           o == iterable[h].obj
           fb == iters[h].fallback
           raw == IF fb THEN (IF pos < 0 THEN "stop" ELSE GetItem(type_slots, o, pos))
                  ELSE ElementAt(o.items, pos)
           asked == IF fb /\ pos < 0 THEN <<>>
                    ELSE <<HEv(IF fb THEN "getitem" ELSE "next", "iterable", h, pos)>>
       IN CASE raw = "stop" ->
                 /\ iters' = [iters EXCEPT ![h].st = "done"]
                 /\ hevents' = hevents \o asked
                 /\ UNCHANGED cursor
            [] raw = "boom" ->
                 /\ iters' = [iters EXCEPT ![h].out =
                        Append(@, PErr(UserErr(IF fb THEN "getitem" ELSE "next")))]
                 /\ hevents' = hevents \o asked
                 /\ cursor' = [cursor EXCEPT ![it] = IF fb THEN -1 ELSE pos + 1]
            [] OTHER ->
                 /\ iters' = [iters EXCEPT ![h].out = Append(@, TryConvert(raw))]
                 /\ hevents' = hevents \o asked
                                  \o <<HEv("convert", "iterable", h, pos)>>
                 /\ cursor' = [cursor EXCEPT ![it] = pos + 1]
    /\ UNCHANGED <<build, param, obj, type_slots, callable, call_result, iterable,
                   mapping, sequence>>

RECURSIVE DrainFrom(_, _, _, _, _)
\* the loop of the extraction: pull the element at position pos, convert it,
\* push it; the first error ends the loop
DrainFrom(items, pos, vec, log, fb) ==
    LET raw == ElementAt(items, pos)
        log1 == Append(log, HEv(IF fb THEN "getitem" ELSE "next", "sequence", 0, pos))
        log2 == Append(log1, HEv("convert", "sequence", 0, pos))
    IN CASE raw = "stop" -> SeqOk(vec, log1)
         [] raw = "boom" -> SeqErr(UserErr(IF fb THEN "getitem" ELSE "next"), log1)
         [] OTHER ->
              IF TryConvert(raw).ok
              THEN DrainFrom(items, pos + 1, Append(vec, TryConvert(raw).v), log2, fb)
              ELSE SeqErr(TryConvert(raw).err, log2)

\* obj.try_to_value::<Vec<T>>(vm): the object is drained through the general
\* iteration protocol, each element converted as it is pulled; `ans` is what
\* the iterate slot answers
try_to_value(tbl, o, ans) ==
    LET f == mro_find_map(tbl, o.cls, "iter") IN
    IF f # NoSlot
    THEN IF ans = "raise"
         THEN SeqErr(UserErr("iter"), <<HEv(f, "sequence", 0, 0)>>)
         ELSE DrainFrom(o.items, 0, <<>>, <<HEv(f, "sequence", 0, 0)>>, FALSE)
    ELSE IF has_attr(tbl, o.cls, "getitem")
         THEN DrainFrom(o.items, 0, <<>>, <<>>, TRUE)
         ELSE SeqErr(NotIterable(o.cls), <<>>)

\* ArgSequence::try_from_object (lines 242-246): obj.try_to_value(vm).map(Self)
\* (mutant: unwrap_or_default, an error becomes the empty sequence)
ArgSequence_try_from_object_mut(r) == SeqOk(r.vec, r.log)
ArgSequence_try_from_object(r) == IF r.tag = "ok" THEN SeqOk(r.vec, r.log) ELSE r

(* ArgSequence::try_from_object applied to an object equivalent to the
   argument (same type, same elements, not yet iterated) *)
BindSequence ==
    /\ param = "iterable"
    /\ sequence = NoSeq
    /\ \E ans \in IterSlotAnswers(mro_find_map(type_slots, obj.cls, "iter")) :
         sequence' = ArgSequence_try_from_object(try_to_value(type_slots, Twin(obj), ans))
    /\ UNCHANGED <<build, param, obj, type_slots, callable, call_result, iterable, iters,
                   cursor, mapping, hevents>>

HNext ==
    \/ BindCallable
    \/ Invoke
    \/ \E h \in 1..2 : BindIterable(h)
    \/ \E h \in 1..2 : Iter(h)
    \/ \E h \in 1..2 : Pull(h)
    \/ BindMapping
    \/ BindSequence

HSpec == HInit /\ [][HNext]_vars

----------------------------------------------------------------------------
(* The handles while the types of the program change, and the handle that  *)
(* ScopeArgs::make_scope builds for the globals of eval and exec.          *)

\* the slot an assignment to a special method of a type puts in its table
Patched == "patched"

(* Before the native function uses a handle (it may have bound some), user
   code changes the type of the object: the call slot (for a callable
   argument) or the iterate slot (for an iterable one) is replaced, added or
   removed, once *)
ChangeSlots ==
    /\ type_slots = SlotTable
    /\ hevents = <<>>
    /\ param \in {"callable", "iterable"}
    /\ LET cap == IF param = "callable" THEN "call" ELSE "iter" IN
       \E new \in {NoSlot, Patched} :
          /\ new # type_slots[obj.cls][cap]
          /\ type_slots' = [type_slots EXCEPT ![obj.cls][cap] = new]
    /\ UNCHANGED <<build, param, obj, callable, call_result, iterable, iters, cursor,
                   mapping, sequence, hevents>>

\* the message of validate_globals_dict (lines 263-287)
GlobalsNotADict(cls) ==
    ErrFmt("TypeError", "exec() globals must be a dict, not {}", cls, "-")

(* ScopeArgs::make_scope (lines 258-303) with globals given and no locals:
   globals must be an instance of dict (a subclass passes), and the locals
   are ArgMapping::from_dict_exact(globals) *)
MakeScope ==
    /\ param = "globals"
    /\ mapping = NoHandle
    /\ mapping' = IF fast_issubclass(obj.cls, "dict")
                  THEN ArgMapping_from_dict_exact(obj)
                  ELSE HErr(GlobalsNotADict(obj.cls))
    /\ UNCHANGED <<build, param, obj, type_slots, callable, call_result, iterable, iters,
                   cursor, sequence, hevents>>

LiveInit ==
    /\ BuildIdle
    /\ param \in ParamTypes \cup {"globals"}
    /\ obj \in HObjects
    /\ HIdle

LiveNext ==
    \/ HNext
    \/ ChangeSlots
    \/ MakeScope

LiveSpec == LiveInit /\ [][LiveNext]_vars

----------------------------------------------------------------------------
(* Re-entrancy: the user code __build_class__ calls (the prepare hook, the  *)
(* class body, the metaclass) may itself run a class statement.  Every call *)
(* of __build_class__ has its own locals; the calls suspended in user code  *)
(* wait on one call stack.                                                  *)

\* bound: the number of constructions that may be suspended at once
MaxDepth == 2

\* the class statements user code executes while a construction is under
\* way: a plain class with type parameters, built by type
InnerCalls ==
    {[q |-> <<"Point">>, kw |-> {}, tp |-> "tuple", bs |-> <<>>, mk |-> "absent"]}

\* the outermost calls: that one, and a class with a base, a keyword and a
\* metaclass
NestCalls ==
    InnerCalls \cup
    {[q |-> <<"pkg", "Outer", "Inner">>, kw |-> {"flag"}, tp |-> "empty",
      bs |-> <<"ClsB">>, mk |-> "MetaB"]}

\* the locals of the running call of __build_class__
Frame ==
    [pc |-> pc, qualified_name |-> qualified_name, type_params |-> type_params,
     arg_bases |-> arg_bases, kwargs |-> kwargs, kw_metaclass |-> kw_metaclass,
     i |-> i, new_bases |-> new_bases, hooks |-> hooks, bases |-> bases,
     orig_bases |-> orig_bases, metaclass |-> metaclass, meta_ok |-> meta_ok,
     meta_name |-> meta_name, namespace |-> namespace, classcell |-> classcell,
     cell |-> cell, body_did |-> body_did, class |-> class,
     class_attrs |-> class_attrs, result |-> result, events |-> events,
     raised |-> raised]

\* the locals of a call at its entry (as in Init)
EntryFrame(c) ==
    [pc |-> "bases", qualified_name |-> c.q, type_params |-> c.tp,
     arg_bases |-> c.bs,
     kwargs |-> c.kw \cup (IF c.mk = "absent" THEN {} ELSE {"metaclass"}),
     kw_metaclass |-> c.mk,
     i |-> 1, new_bases |-> None, hooks |-> <<>>, bases |-> c.bs,
     orig_bases |-> None, metaclass |-> "-", meta_ok |-> FALSE,
     meta_name |-> "-", namespace |-> [cls |-> "-", keys |-> {}, orig |-> None],
     classcell |-> "-",
     cell |-> "empty", body_did |-> [w |-> {}, d |-> {}, end |-> "-"], class |-> "-",
     class_attrs |-> {}, result |-> NoResult, events |-> <<>>,
     raised |-> <<>>]

\* the running call is the one with locals f
Running(f) ==
    /\ pc = f.pc /\ qualified_name = f.qualified_name /\ type_params = f.type_params
    /\ arg_bases = f.arg_bases /\ kwargs = f.kwargs /\ kw_metaclass = f.kw_metaclass
    /\ i = f.i /\ new_bases = f.new_bases /\ hooks = f.hooks /\ bases = f.bases
    /\ orig_bases = f.orig_bases /\ metaclass = f.metaclass /\ meta_ok = f.meta_ok
    /\ meta_name = f.meta_name /\ namespace = f.namespace /\ classcell = f.classcell
    /\ cell = f.cell /\ body_did = f.body_did /\ class = f.class
    /\ class_attrs = f.class_attrs /\ result = f.result /\ events = f.events
    /\ raised = f.raised

\* control passes to the call with locals f
Switch(f) ==
    /\ pc' = f.pc /\ qualified_name' = f.qualified_name /\ type_params' = f.type_params
    /\ arg_bases' = f.arg_bases /\ kwargs' = f.kwargs /\ kw_metaclass' = f.kw_metaclass
    /\ i' = f.i /\ new_bases' = f.new_bases /\ hooks' = f.hooks /\ bases' = f.bases
    /\ orig_bases' = f.orig_bases /\ metaclass' = f.metaclass /\ meta_ok' = f.meta_ok
    /\ meta_name' = f.meta_name /\ namespace' = f.namespace /\ classcell' = f.classcell
    /\ cell' = f.cell /\ body_did' = f.body_did /\ class' = f.class
    /\ class_attrs' = f.class_attrs /\ result' = f.result /\ events' = f.events
    /\ raised' = f.raised

NestInit ==
    /\ \E c \in NestCalls : Running(EntryFrame(c))
    /\ stack = <<>>
    /\ param = "-"
    /\ obj = NoObj
    /\ HIdle

\* the positions where __build_class__ is inside user code that may run a
\* class statement: the lookup and call of __prepare__ on a metaclass other
\* than type (lines 951-957), the body (line 985), the metaclass call (line 1003)
InUserCode(f) ==
    \/ f.pc = "prepare" /\ f.metaclass # type_type
    \/ f.pc \in {"body", "call"}

\* the call into user code the suspended call f is in
CallOf(f) ==
    CASE f.pc = "prepare" ->
           Ev("prepare", f.metaclass, NameOf(f.qualified_name), f.bases, {}, f.kwargs)
      [] f.pc = "body" ->
           Ev("body", "-", "-", <<>>, f.namespace.keys, {})
      [] f.pc = "call" ->
           Ev("call", f.metaclass, NameOf(f.qualified_name), f.bases,
              f.namespace.keys, f.kwargs)

\* the user code the suspended call f is in raises e, and the `?` of lines
\* 957, 985, 1003 hands e to the caller of f
Propagate(f, e) ==
    LET evs == Append(f.events, CallOf(f)) IN
    [f EXCEPT !.pc = "done",
              !.result = e,
              !.events = evs,
              !.raised = Append(f.raised, Met(f.pc, e, evs)),
              !.body_did = IF f.pc = "body" THEN [@ EXCEPT !.end = "raise"] ELSE @]

(* The user code the running call is in executes a class statement: a new
   call of __build_class__ starts, with its own arguments and locals *)
EnterNested ==
    /\ InUserCode(Frame)
    /\ Len(stack) < MaxDepth
    /\ stack' = Append(stack, Frame)
    /\ \E c \in InnerCalls : Switch(EntryFrame(c))
    /\ UNCHANGED handles

\* (mutant: the keyword arguments are not locals of the call: the caller goes
\* on with what the nested call left of them)
LeaveNested_mut ==
    /\ pc = "done"
    /\ stack # <<>>
    /\ stack' = SubSeq(stack, 1, Len(stack) - 1)
    /\ LET outer == [stack[Len(stack)] EXCEPT !.kwargs = kwargs] IN
       \E handled \in BOOLEAN :
          IF result.tag = "err" /\ ~handled
          THEN Switch(Propagate(outer, result))
          ELSE Switch(outer)
    /\ UNCHANGED handles

(* The nested call returns to the user code that made it: with a class, or
   with an error, which that code handles or lets through to the call of
   __build_class__ it was called from *)
LeaveNested ==
    /\ pc = "done"
    /\ stack # <<>>
    /\ stack' = SubSeq(stack, 1, Len(stack) - 1)
    /\ LET outer == stack[Len(stack)] IN
       \E handled \in BOOLEAN :
          IF result.tag = "err" /\ ~handled
          THEN Switch(Propagate(outer, result))
          ELSE Switch(outer)
    /\ UNCHANGED handles

NestNext ==
    \/ Next
    \/ EnterNested
    \/ LeaveNested

NestSpec == NestInit /\ [][NestNext]_vars

----------------------------------------------------------------------------
(* Properties *)

\* the positions in the log of the calls of kind op
EvOps(op) == {k \in 1..Len(events) : events[k].op = op}

\* the metaclass loop has been entered or skipped: `bases` is the normalized tuple
Normalized == metaclass # "-"

\* the objects that have been invoked as the metaclass
Invoked == {events[k].target : k \in EvOps("call")}

\* C1: with no metaclass keyword and two bases of types T1, T2 (in that order):
\* if T2 is a subclass of T1, any metaclass invoked is T2 (and T2 is the one
\* selected as soon as T1 is itself a metaclass); if T1 and T2 are unrelated,
\* construction ends with the metaclass-conflict error and nothing is invoked.
C1_MetaclassOfTwoBases ==
    (kw_metaclass = "absent" /\ Normalized /\ Len(bases) = 2) =>
        LET T1 == ClassOf(bases[1])
            T2 == ClassOf(bases[2])
        IN /\ fast_issubclass(T2, T1) =>
                /\ Invoked \subseteq {T2}
                /\ (fast_issubclass(T1, type_type) /\ pc # "meta") =>
                       (metaclass = T2 /\ result # MetaclassConflict)
           /\ (~fast_issubclass(T2, T1) /\ ~fast_issubclass(T1, T2)) =>
                /\ Invoked = {}
                /\ pc # "meta" => (pc = "done" /\ result = MetaclassConflict)

\* C1 witness: T2 a proper subclass of T1 has been invoked as the metaclass
C1_Witness ==
    /\ kw_metaclass = "absent" /\ Normalized /\ Len(bases) = 2
    /\ ClassOf(bases[1]) # ClassOf(bases[2])
    /\ fast_issubclass(ClassOf(bases[2]), ClassOf(bases[1]))
    /\ Invoked = {ClassOf(bases[2])}

\* the function went through the class-cell verification of lines 1019-1033
Verified == pc = "done" /\ class = "new" /\ result # UserErr("set_attr")

\* C2 (as claimed): a cell still empty when it is verified makes construction
\* fail with a RuntimeError, and no type object is returned.
C2_EmptyCellIsRuntimeError ==
    (Verified /\ classcell = "cell" /\ cell = "empty") =>
        (result.tag = "err" /\ result.kind = "RuntimeError")

\* C3: at the verification: with no cell the class is returned unchecked; with
\* a cell holding a value the class is returned exactly when the value is the
\* class itself (the same object), and otherwise a TypeError names both; so a
\* success with a cell has the cell hold the returned class.
C3_CellVerification ==
    /\ Verified =>
          /\ classcell = "none" => result = Ok(class)
          /\ (classcell = "cell" /\ cell # "empty") =>
                /\ result.tag = "ok" <=> cell = class
                /\ cell = class => result = Ok(class)
                /\ cell # class => result = ClassMismatch(cell, meta_name, class)
    /\ (result.tag = "ok" /\ classcell = "cell") => (cell = class /\ result.msg = class)

\* C3 witness: a cell holding an object equal to the class but not the class
C3_Witness ==
    /\ Verified /\ classcell = "cell" /\ cell = "twin"
    /\ EqKey(cell) = EqKey(class)
    /\ result = ClassMismatch(cell, meta_name, class)

\* errors whose results the code discards on purpose: the removal of the
\* reserved key (`.ok()`) and the read of __type_params__ (`if let Ok`)
Discarded == {"del_item", "get_type_params"}

\* the errors met by the steps, in order, but for the discarded ones
Failures == SelectSeq(raised, LAMBDA r : r.op \notin Discarded)

\* the phase a user-visible call belongs to
Phase(op) ==
    CASE op = "mro_entries" -> 1
      [] op = "prepare"     -> 3
      [] op = "body"        -> 4
      [] op = "call"        -> 5

RECURSIVE SpecCalc(_, _)
\* the per-base rule of the specification, applied to the bases in order from
\* candidate m: the candidate at the end, or a conflict
SpecCalc(m, bs) ==
    IF bs = <<>> THEN [conflict |-> FALSE, m |-> m]
    ELSE LET t == ClassOf(Head(bs)) IN
         IF fast_issubclass(t, m) THEN SpecCalc(t, Tail(bs))
         ELSE IF ~fast_issubclass(m, t) THEN [conflict |-> TRUE, m |-> m]
         ELSE SpecCalc(m, Tail(bs))

\* C5 (as claimed): for every explicit metaclass that is a type object, also
\* one whose own type is not exactly the root type, the per-base rule decides:
\* a conflict ends construction with the metaclass-conflict error, and
\* otherwise the candidate the rule ends with is the metaclass.
C5_PerBaseRule ==
    (kw_metaclass # "absent" /\ fast_isinstance(kw_metaclass, type_type)
        /\ Normalized /\ pc # "meta") =>
        LET f == SpecCalc(kw_metaclass, bases) IN
        IF f.conflict
        THEN pc = "done" /\ result = MetaclassConflict
        ELSE metaclass = f.m /\ result # MetaclassConflict

\* C6 (as claimed): a metaclass keyword that is not a type object stops
\* construction before prepare, body and metaclass call; with no keyword the
\* starting candidate is the root type object.
C6_NonTypeKeywordRejected ==
    /\ (kw_metaclass # "absent" /\ ~fast_isinstance(kw_metaclass, type_type)) =>
           (EvOps("prepare") \cup EvOps("body") \cup EvOps("call")) = {}
    /\ (kw_metaclass = "absent" /\ pc = "meta" /\ i = 1) => metaclass = type_type

\* C6 (amended): a metaclass keyword that is not a type object is not
\* rejected: the bases are not examined (no metaclass conflict), the value
\* itself is the metaclass under the name "<metaclass>", the one whose prepare
\* hook is called and the one invoked; with no keyword the starting candidate
\* is the root type object.
C6_NonTypeKeywordUsedAsIs ==
    /\ (kw_metaclass # "absent" /\ ~fast_isinstance(kw_metaclass, type_type)
           /\ Normalized) =>
           /\ pc # "meta"
           /\ metaclass = kw_metaclass
           /\ meta_name = "<metaclass>"
           /\ result # MetaclassConflict
           /\ Invoked \subseteq {kw_metaclass}
           /\ \A k \in EvOps("prepare") : events[k].target = kw_metaclass
    /\ (kw_metaclass = "absent" /\ pc = "meta" /\ i = 1) => metaclass = type_type

\* C6 witness: a callable that is no type has been invoked as the metaclass of
\* a class with bases
C6_Witness ==
    /\ kw_metaclass # "absent" /\ ~fast_isinstance(kw_metaclass, type_type)
    /\ Len(bases) > 0
    /\ EvOps("body") # {}
    /\ Invoked = {kw_metaclass}

\* C7: the prepare hook of the chosen metaclass is called at most once, with
\* the class name, the base tuple and the keywords left after `metaclass` is
\* taken out; what it returns becomes the namespace of the body only if it is
\* a mapping, and otherwise construction ends, before any body runs, with the
\* TypeError naming the metaclass and the offending type; with no hook the
\* namespace is an empty dict.
C7_NamespacePreparation ==
    /\ Cardinality(EvOps("prepare")) <= 1
    /\ \A k \in EvOps("prepare") :
          /\ events[k].target = metaclass
          /\ events[k].name = qualified_name[Len(qualified_name)]
          /\ events[k].bases = bases
          /\ events[k].kw = kwargs
          /\ "metaclass" \notin events[k].kw
    /\ (pc = "mapping" /\ EvOps("prepare") = {}) => namespace = EmptyDict
    /\ (namespace.cls # "-" /\ ~IsMapping(namespace)) =>
          /\ EvOps("prepare") # {}
          /\ EvOps("body") = {}
          /\ pc \in {"mapping", "done"}
          /\ pc = "done" =>
                result = ErrFmt("TypeError",
                                "{}.__prepare__() must return a mapping, not {}",
                                meta_name, namespace.cls)
    /\ EvOps("body") # {} => IsMapping(namespace)

\* C7 witness: a prepare hook returned an int and construction ended
C7_Witness ==
    /\ pc = "done"
    /\ Cardinality(EvOps("prepare")) = 1
    /\ namespace.cls = "int"
    /\ result.kind = "TypeError" /\ result.b = "int"

\* C8 (as claimed): whatever the namespace mapping and the body, the namespace
\* handed to the metaclass does not hold the reserved key.
C8_ReservedKeyNeverLeaks ==
    \A k \in EvOps("call") : ".type_params" \notin events[k].ns

\* C9 (as claimed): an error raised by user-level code (hooks, body, namespace
\* set and delete, the read of the type parameters, the metaclass call) ends
\* construction and is the error the caller gets.
C9_UserErrorsPropagate ==
    \A k \in 1..Len(raised) :
        raised[k].err.kind = "UserError" =>
            (pc = "done" /\ result = raised[k].err /\ k = Len(raised))

\* C10: "Point", no bases, no keywords, a body that stores x and y and
\* returns no cell: the root type object is invoked once, with the name
\* "Point", the empty tuple and a namespace of exactly x and y, and the class
\* it builds is returned.
C10_PointEndToEnd ==
    (/\ qualified_name = <<"Point">> /\ arg_bases = <<>>
     /\ kw_metaclass = "absent" /\ kwargs = {}
     /\ body_did = [w |-> {"x", "y"}, d |-> {}, end |-> "none"]
     /\ pc = "done") =>
        /\ result = Ok("new")
        /\ class = "new"
        /\ Cardinality(EvOps("call")) = 1
        /\ \A k \in EvOps("call") :
              /\ events[k].target = type_type
              /\ events[k].name = "Point"
              /\ events[k].bases = <<>>
              /\ events[k].ns = {"x", "y"}

\* C10 witness: the end of that construction, for a function that carries type
\* parameters (the reserved key was in the namespace while the body ran)
C10_Witness ==
    /\ qualified_name = <<"Point">> /\ arg_bases = <<>>
    /\ kw_metaclass = "absent" /\ kwargs = {}
    /\ body_did = [w |-> {"x", "y"}, d |-> {}, end |-> "none"]
    /\ type_params = "tuple"
    /\ \E k \in EvOps("body") : ".type_params" \in events[k].ns
    /\ pc = "done" /\ result = Ok("new")

----------------------------------------------------------------------------
(* Properties of the argument handles (specification HSpec) *)

\* the type chain of type t exposes capability cap
Exposes(t, cap) == \E k \in 1..Len(Mro(t)) : type_slots[Mro(t)[k]][cap] # NoSlot

\* slot is the slot for cap nearest to t in its type chain
Nearest(t, cap, slot) ==
    \E k \in 1..Len(Mro(t)) :
        /\ type_slots[Mro(t)[k]][cap] = slot
        /\ slot # NoSlot
        /\ \A j \in 1..(k - 1) : type_slots[Mro(t)[j]][cap] = NoSlot

\* C11: binding a callable handle succeeds exactly when the type chain of
\* the object exposes a call slot; the handle then holds that very object and
\* the nearest call slot; otherwise the result is the TypeError "'<type>'
\* object is not callable", nothing has been invoked and the object is as it
\* was.
C11_CallableBind ==
    callable.tag # "none" =>
        /\ callable.tag = "ok" <=> Exposes(obj.cls, "call")
        /\ callable.tag = "ok" =>
              /\ callable.obj = obj /\ callable.obj.id = "src"
              /\ Nearest(obj.cls, "call", callable.slot)
        /\ callable.tag = "err" =>
              /\ callable.err.kind = "TypeError"
              /\ callable.err.msg = "'{}' object is not callable"
              /\ callable.err.a = obj.cls
              /\ hevents = <<>> /\ call_result = NoResult
              /\ obj \in HObjects /\ cursor[0] = 0

\* C11 witness: an object with elements and no call slot was refused
C11_Witness ==
    /\ obj.cls = "Legacy" /\ obj.items = <<"i1", "i2">>
    /\ callable.tag = "err"
    /\ callable.err = NotCallable("Legacy")

\* C12: binding an iterable handle succeeds exactly when the type chain
\* exposes an iterate slot or __getitem__, and otherwise gives the TypeError
\* "'<type>' object is not iterable"; a bound handle stores the nearest
\* iterate slot, and stores none (fallback mode) exactly when the type chain
\* has no iterate slot.
C12_IterableBind ==
    \A h \in 1..2 :
        iterable[h].tag # "none" =>
            /\ iterable[h].tag = "ok" <=>
                  (Exposes(obj.cls, "iter") \/ Exposes(obj.cls, "getitem"))
            /\ iterable[h].tag = "err" =>
                  /\ iterable[h].err.kind = "TypeError"
                  /\ iterable[h].err.msg = "'{}' object is not iterable"
                  /\ iterable[h].err.a = obj.cls
            /\ iterable[h].tag = "ok" =>
                  /\ iterable[h].obj = obj
                  /\ iterable[h].slot = NoSlot <=> ~Exposes(obj.cls, "iter")
                  /\ iterable[h].slot # NoSlot =>
                        Nearest(obj.cls, "iter", iterable[h].slot)

\* C12 witness: a handle in fallback mode on an object that inherits
\* __getitem__ and has no iterate slot
C12_Witness ==
    /\ obj.cls = "LegacySub"
    /\ iterable[1].tag = "ok" /\ iterable[1].slot = NoSlot
    /\ iterable[1].obj = obj

\* C13: binding a mapping handle succeeds exactly when the object satisfies
\* the mapping protocol, and otherwise gives a TypeError; a bound handle holds
\* that very object and the mapping methods of its type chain.
C13_MappingBind ==
    mapping.tag # "none" =>
        /\ mapping.tag = "ok" <=> IsMapping(obj)
        /\ mapping.tag = "err" => mapping.err.kind = "TypeError"
        /\ mapping.tag = "ok" =>
              /\ mapping.obj = obj /\ mapping.obj.id = "src"
              /\ Nearest(obj.cls, "mapping", mapping.slot)

\* C13 witness: a user mapping bound with its own methods, not those of dict
C13_Witness ==
    /\ obj.cls = "Mapping"
    /\ mapping.tag = "ok" /\ mapping.obj = obj
    /\ mapping.slot = "Mapping_as_mapping"

\* the pulls and the conversions in a log
Pulls(log) == SelectSeq(log, LAMBDA e : e.op \in {"next", "getitem"})
Converts(log) == SelectSeq(log, LAMBDA e : e.op = "convert")

\* the results an iteration over `items` gives pull by pull when every pull is
\* answered: the converted element, the conversion error, or the error
\* raised by the pull itself
Full(items, fb) ==
    [k \in 1..Len(items) |->
        IF items[k] = "boom" THEN PErr(UserErr(IF fb THEN "getitem" ELSE "next"))
        ELSE TryConvert(items[k])]

Values(out) == [k \in 1..Len(out) |-> out[k].v]

\* the first position (from 1) whose pull or conversion fails, 0 if none
FirstBad(items) ==
    LET bad == {k \in 1..Len(items) : ~Full(items, FALSE)[k].ok} IN
    IF bad = {} THEN 0 ELSE CHOOSE k \in bad : \A j \in bad : k <= j

\* C14: binding a sequence handle to an iterable object pulls the elements
\* in order from position 0 and converts each right after its pull; with no
\* failing element the handle holds all the converted elements; otherwise
\* binding fails with the error of the first failing pull or conversion, the
\* elements after it are never pulled, and no handle (no partial vector)
\* comes out.
C14_SequenceFailFast ==
    (/\ sequence.tag # "none"
     /\ Exposes(obj.cls, "iter") \/ Exposes(obj.cls, "getitem")
     /\ sequence.err # UserErr("iter")) =>
        LET items == obj.items
            f == FirstBad(items)
            log == sequence.log
            fb == ~Exposes(obj.cls, "iter")
        IN /\ \A k \in 1..Len(Pulls(log)) : Pulls(log)[k].pos = k - 1
           /\ \A j \in 1..Len(log) :
                 log[j].op = "convert" =>
                    (j > 1 /\ log[j - 1].op \in {"next", "getitem"}
                           /\ log[j - 1].pos = log[j].pos)
           /\ f = 0 => /\ sequence.tag = "ok"
                       /\ sequence.vec = Values(Full(items, fb))
                       /\ Len(Pulls(log)) = Len(items) + 1
                       /\ Len(Converts(log)) = Len(items)
           /\ f > 0 => /\ sequence.tag = "err"
                       /\ sequence.vec = <<>>
                       /\ sequence.err = Full(items, fb)[f].err
                       /\ Len(Pulls(log)) = f
                       /\ Len(Converts(log)) = IF items[f] = "boom" THEN f - 1 ELSE f

\* C14 witness: the conversion of the first element failed and the second
\* element was never pulled
C14_Witness ==
    /\ obj.cls = "Legacy" /\ obj.items = <<"s", "i1">>
    /\ sequence.tag = "err" /\ sequence.err.kind = "TypeError"
    /\ Len(Pulls(sequence.log)) = 1

\* C15: a step that binds a callable, a mapping or an iterable handle runs
\* no user-level code, makes no iterator, converts nothing and moves no
\* iterator, whether it succeeds or fails; the code run for an iterable
\* binding comes after its iter().
C15_BindRunsNoUserCode ==
    [][(callable' # callable \/ mapping' # mapping \/ iterable' # iterable) =>
         (/\ hevents' = hevents /\ iters' = iters /\ cursor' = cursor
          /\ call_result' = call_result /\ obj' = obj
          /\ \A k \in 1..Len(hevents) :
                hevents[k].by = "iterable" => iters[hevents[k].h].st # "none")]_vars

\* C15 witness: an iterable handle bound to an object with an iterate slot
\* and elements, nothing run and no iterator made yet
C15_Witness ==
    /\ obj.cls = "Container" /\ obj.items # <<>>
    /\ iterable[1].tag = "ok" /\ iterable[1].slot # NoSlot
    /\ iters[1].st = "none" /\ hevents = <<>>

\* C16 (as claimed): for any object with an iterate slot, the two bindings
\* driven to completion have received the same elements.
C16_IndependentForAnyIterable ==
    (/\ Exposes(obj.cls, "iter")
     /\ iters[1].st = "done" /\ iters[2].st = "done") =>
        iters[1].out = iters[2].out

\* C16 (amended): for an object whose iterate slot gives a new iterator at
\* each call, every binding has its own iterator and what it has received is
\* the beginning of the object's elements, in order, whatever the other
\* binding has pulled, and all of them once it is done; for an object whose
\* iterate slot gives the object itself, the bindings share that one iterator
\* and each pull of either advances it.
C16_IndependentFreshIterators ==
    \A h \in 1..2 :
        (iterable[h].slot # NoSlot /\ iters[h].st \in {"active", "done"}) =>
            IF "self" \in IterSlotAnswers(iterable[h].slot)
            THEN /\ iters[h].it = 0
                 /\ Len(iters[1].out) + Len(iters[2].out) = cursor[0]
            ELSE /\ iters[h].it = h
                 /\ iters[h].out =
                       SubSeq(Full(obj.items, FALSE), 1, Len(iters[h].out))
                 /\ cursor[h] = Len(iters[h].out)
                 /\ iters[h].st = "done" => Len(iters[h].out) = Len(obj.items)

\* C16 witness: one binding is done with both elements while the other has
\* pulled only the first
C16_Witness ==
    /\ obj.cls = "Container" /\ obj.items = <<"i1", "i2">>
    /\ iters[1].st = "done" /\ Len(iters[1].out) = 2
    /\ iters[2].st = "active" /\ iters[2].out = <<POk("1")>>

\* C17: for an object without iterate slot whose __getitem__ answers the
\* indices 0..N-1 and signals out-of-range at N, iter() succeeds and the
\* adapter subscripts 0, 1, .. in ascending order, yields the N elements in
\* that order and ends at the out-of-range signal; an iterate slot over the
\* same elements yields that same sequence.
C17_FallbackEquivalence ==
    \A h \in 1..2 :
        (iterable[h].tag = "ok" /\ \A k \in 1..Len(obj.items) : obj.items[k] # "boom") =>
            LET asked == SelectSeq(hevents,
                            LAMBDA e : e.by = "iterable" /\ e.h = h /\ e.op = "getitem")
                native == Full(obj.items, FALSE)
                out == iters[h].out
            IN IF iterable[h].slot = NoSlot
               THEN /\ iters[h].st # "failed"
                    /\ iters[h].st # "none" => (iters[h].fallback /\ iters[h].it = h)
                    /\ \A k \in 1..Len(asked) : asked[k].pos = k - 1
                    /\ Len(asked) = Len(out) + (IF iters[h].st = "done" THEN 1 ELSE 0)
                    /\ out = SubSeq(native, 1, Len(out))
                    /\ iters[h].st = "done" => out = native
               ELSE /\ asked = <<>>
                    /\ (iters[h].st = "done" /\ iters[h].it = h) => out = native

\* C17 witness: the fallback iteration of an object with two elements is done
C17_Witness ==
    /\ obj.cls = "Legacy" /\ obj.items = <<"i2", "i1">>
    /\ iterable[1].slot = NoSlot /\ iters[1].st = "done"
    /\ Values(iters[1].out) = <<"2", "1">>
    /\ Len(hevents) = 5

\* binding h is the only one that has pulled from its iterator
Sole(h) == iters[h].it = h \/ iters[3 - h].out = <<>>

\* C18: when a sequence handle was bound to an object, a binding of an
\* iterable handle driven alone to completion over an equivalent object has
\* received, without error, exactly the elements of the sequence handle, in
\* the same order.
C18_EagerMatchesLazy ==
    \A h \in 1..2 :
        (sequence.tag = "ok" /\ iters[h].st = "done" /\ Sole(h)) =>
            /\ \A k \in 1..Len(iters[h].out) : iters[h].out[k].ok
            /\ Values(iters[h].out) = sequence.vec
            /\ Len(sequence.vec) = Len(obj.items)

\* C18 witness: an iterator object drained by one binding, and a sequence
\* handle bound to an equivalent object
C18_Witness ==
    /\ obj.cls = "Iterator" /\ obj.items = <<"i2", "i1">>
    /\ sequence.tag = "ok" /\ sequence.vec = <<"2", "1">>
    /\ iters[2].st = "done" /\ Values(iters[2].out) = sequence.vec

----------------------------------------------------------------------------
(* Further properties of __build_class__ (specification Spec) *)

\* the candidate metaclass determination starts from
StartingCandidate == IF kw_metaclass = "absent" THEN type_type ELSE kw_metaclass

\* C19 (as claimed): for a starting candidate that is a type object (the
\* root type, or any type object given as `metaclass`), while the bases are
\* examined the candidate is the one the per-base rule gives for the bases
\* to the left, and once determination is over without conflict the
\* metaclass is a subclass-or-equal of the type of every base and of the
\* starting candidate, and is the starting candidate or the type of a base.
C19_MostDerivedMetaclass ==
    (fast_isinstance(StartingCandidate, type_type) /\ Normalized) =>
        /\ pc = "meta" =>
              LET f == SpecCalc(StartingCandidate, SubSeq(bases, 1, i - 1)) IN
              ~f.conflict /\ metaclass = f.m
        /\ (pc # "meta" /\ result # MetaclassConflict) =>
              /\ \A k \in 1..Len(bases) : fast_issubclass(metaclass, ClassOf(bases[k]))
              /\ fast_issubclass(metaclass, StartingCandidate)
              /\ metaclass \in {StartingCandidate} \cup {ClassOf(bases[k]) : k \in 1..Len(bases)}

\* the positions in the log of the lookups made for the base at position k
HooksAt(k) == {j \in 1..Len(hooks) : hooks[j].i = k}

\* what the base at position k of the original tuple contributes: the tuple
\* its hook returned, or the base itself
Piece(k) ==
    IF \E j \in HooksAt(k) : hooks[j].ret.kind = "tuple"
    THEN hooks[CHOOSE j \in HooksAt(k) : hooks[j].ret.kind = "tuple"].ret.v
    ELSE <<arg_bases[k]>>

RECURSIVE ConcatPieces(_)
ConcatPieces(n) == IF n = 0 THEN <<>> ELSE ConcatPieces(n - 1) \o Piece(n)

\* C20: the hook is looked up on the bases that are no type objects only, in
\* the order of the bases and once each, and every hook found is called with
\* the full original base tuple; the base tuple in use after phase 1 is the
\* concatenation, in order, of [b] for a base b that is a type object or has
\* no hook, and of the tuple the hook of b returned otherwise.
C20_BaseNormalization ==
    /\ \A j \in 1..Len(hooks) :
          /\ hooks[j].base = arg_bases[hooks[j].i]
          /\ ~fast_isinstance(hooks[j].base, type_type)
          /\ \A j2 \in 1..Len(hooks) : j < j2 => hooks[j].i < hooks[j2].i
    /\ LET called == SelectSeq(hooks, LAMBDA e : e.look = "some")
           evs == SelectSeq(events, LAMBDA e : e.op = "mro_entries")
       IN /\ Len(evs) = Len(called)
          /\ \A k \in 1..Len(evs) :
                /\ evs[k].target = called[k].base
                /\ evs[k].bases = arg_bases
    /\ Normalized =>
          /\ \A k \in 1..Len(arg_bases) :
                fast_isinstance(arg_bases[k], type_type) <=> HooksAt(k) = {}
          /\ \A j \in 1..Len(hooks) :
                hooks[j].look = "none" \/ hooks[j].ret.kind = "tuple"
          /\ bases = ConcatPieces(Len(arg_bases))

\* C20 witness: a base without hook that is no type object is kept, and the
\* two classes the hook of the second base returned follow it
C20_Witness ==
    /\ Normalized
    /\ arg_bases = <<"inst", "gen">>
    /\ bases = <<"inst", "ClsA", "ClsB">>
    /\ Len(hooks) = 2

----------------------------------------------------------------------------
(* Properties of the later steps of __build_class__ (specification Spec) *)

\* the positions in the log of the bases whose __mro_entries__ hook was invoked
HookCalls == {k \in 1..Len(hooks) : hooks[k].look = "some"}

\* the class body has run to its end and returned
BodyFinished == body_did.end \in {"none", "cell_empty", "cell_twin"}

\* C21: __build_class__ writes __orig_bases__ into the namespace exactly when
\* the hook of at least one base was invoked in phase 1; the value is the base
\* tuple as passed; the write comes after the body has finished and before
\* the metaclass is invoked (the body does not find the key, the metaclass
\* does).  With no hook invoked the metaclass gets the tuple as passed and
\* the key is never written.
C21_OrigBasesRecord ==
    /\ namespace.orig.some <=> "__orig_bases__" \in namespace.keys
    /\ "__orig_bases__" \in namespace.keys =>
          /\ namespace.orig = Some(arg_bases)
          /\ HookCalls # {}
          /\ BodyFinished
          /\ pc \notin {"body", "orig"}
    /\ pc \in {"del", "call", "attach", "verify"} =>
          ("__orig_bases__" \in namespace.keys <=> HookCalls # {})
    /\ \A k \in EvOps("body") : "__orig_bases__" \notin events[k].ns
    /\ \A k \in EvOps("call") :
          /\ "__orig_bases__" \in events[k].ns <=> HookCalls # {}
          /\ HookCalls = {} => (events[k].bases = arg_bases /\ ~orig_bases.some)
          /\ HookCalls # {} => (events[k].bases = new_bases.v /\ orig_bases = Some(arg_bases))

\* C21 witness: the metaclass has been invoked with a namespace holding the
\* key, whose value is the tuple as passed and not the normalized one
C21_Witness ==
    /\ arg_bases = <<"ClsT", "gen">>
    /\ bases = <<"ClsT", "ClsA", "ClsB">>
    /\ \E k \in EvOps("call") : "__orig_bases__" \in events[k].ns
    /\ namespace.orig = Some(arg_bases)
    /\ namespace.cls = "Mapping"

\* the names of the attributes __build_class__ has set on the class
AttrNames == {a.name : a \in class_attrs}

\* C22: when the function carries type parameters (a non-empty tuple) and
\* construction succeeds, the class returned has that value under both
\* __type_params__ and __parameters__; when it carries none (an empty tuple
\* or no tuple), __build_class__ sets neither; no other attribute is ever set
\* and none without type parameters read from the function.
C22_TypeParamAttachment ==
    /\ (result.tag = "ok" /\ HasTypeParams(type_params)) =>
          /\ result.msg = class
          /\ class_attrs = {Attr("__type_params__", type_params),
                            Attr("__parameters__", type_params)}
    /\ type_params \in {"empty", "not_tuple"} => class_attrs = {}
    /\ class_attrs # {} =>
          /\ type_params = "tuple"
          /\ class = "new"
          /\ AttrNames \subseteq {"__type_params__", "__parameters__"}
          /\ \A a \in class_attrs : a.value = type_params

\* C22 witness: a class built by a metaclass other than type, for a function
\* with type parameters, has been returned with both attributes set
C22_Witness ==
    /\ result = Ok("new")
    /\ type_params = "tuple"
    /\ metaclass = "MetaB"
    /\ AttrNames = {"__type_params__", "__parameters__"}

\* C23: when the class body raises, __build_class__ ends at once with the
\* error of the body: no step is left to take, the namespace holds what the
\* body left in it (what it held when the body started, less what the body
\* deleted, plus what the body wrote; the reserved key too when the body did
\* not delete it), nothing was recorded or removed by __build_class__
\* afterwards and no class exists.
C23_NoRollbackOnBodyFailure ==
    body_did.end = "raise" =>
        /\ pc = "done"
        /\ ~ENABLED Next
        /\ result = UserErr("body")
        /\ raised[Len(raised)] = Met("body", UserErr("body"), events)
        /\ events[Len(events)].op = "body"
        /\ namespace.keys = (events[Len(events)].ns \ body_did.d) \cup body_did.w
        /\ (".type_params" \in events[Len(events)].ns /\ ".type_params" \notin body_did.d)
              => ".type_params" \in namespace.keys
        /\ "__orig_bases__" \notin namespace.keys /\ ~namespace.orig.some
        /\ \A k \in 1..Len(raised) : raised[k].op # "del_item"
        /\ class = "-"

\* C23 witness: the body of a class with type parameters and a replaced base
\* raised; the reserved key is still in the mapping the prepare hook returned
C23_Witness ==
    /\ body_did.end = "raise"
    /\ pc = "done"
    /\ namespace.cls = "Mapping"
    /\ ".type_params" \in namespace.keys
    /\ orig_bases.some

\* the hooks that returned something that is no tuple
BadReturns == {k \in 1..Len(hooks) : hooks[k].ret.kind = "not_tuple"}

\* C28: when the __mro_entries__ hook of a base returns something that is no
\* tuple, __build_class__ ends with the TypeError "__mro_entries__ must
\* return a tuple": that hook is the last one looked up or invoked, no base
\* after it is examined, and no metaclass is determined, no namespace
\* prepared, no body run and no class built.
C28_MroEntriesMustReturnTuple ==
    \A k \in BadReturns :
        /\ k = Len(hooks)
        /\ ~fast_isinstance(hooks[k].base, type_type)
        /\ pc = "done"
        /\ result = new_type_error("__mro_entries__ must return a tuple")
        /\ result.kind = "TypeError"
        /\ raised = <<Met("not_tuple", result, events)>>
        /\ \A j \in 1..Len(events) : events[j].op = "mro_entries"
        /\ events[Len(events)].target = hooks[k].base
        /\ Cardinality(HookCalls) = Len(events)
        /\ i = hooks[k].i
        /\ ~Normalized /\ ~meta_ok /\ metaclass = "-"
        /\ ("metaclass" \in kwargs) <=> (kw_metaclass # "absent")
        /\ namespace.cls = "-" /\ body_did.end = "-" /\ class = "-"

\* C28 witness: the hook of the first of two generic bases returned no tuple,
\* with a metaclass keyword given: the second hook was not invoked
C28_Witness ==
    /\ arg_bases = <<"gen", "gen">>
    /\ kw_metaclass = "MetaB"
    /\ BadReturns = {1}
    /\ Len(events) = 1
    /\ pc = "done"

\* the keyword arguments of the caller besides `metaclass` (the only key ever
\* removed)
Remaining == kwargs \ {"metaclass"}

\* what the prepare hook and the metaclass call are passed: the remaining
\* keyword arguments and the normalized base tuple, the same for both
Forwarded ==
    /\ \A k \in EvOps("prepare") \cup EvOps("call") :
          /\ events[k].kw = Remaining
          /\ "metaclass" \notin events[k].kw
          /\ events[k].bases = bases
          /\ events[k].bases = (IF HookCalls # {} THEN new_bases.v ELSE arg_bases)
          /\ events[k].target = metaclass
    /\ \A p \in EvOps("prepare"), c \in EvOps("call") :
          /\ events[p].kw = events[c].kw
          /\ events[p].bases = events[c].bases

\* C29 (as claimed): the `metaclass` keyword is removed before any hook is
\* called, and the prepare hook and the metaclass call get the same remaining
\* keyword arguments and the same normalized base tuple.
C29_KeywordRemovedBeforeAnyHook ==
    /\ events # <<>> => "metaclass" \notin kwargs
    /\ Forwarded

\* C29 (amended): the `metaclass` keyword is removed once the bases are
\* normalized, before the prepare hook is looked up; the __mro_entries__
\* hooks run before the removal and are passed the base tuple only; the
\* prepare hook and the metaclass call get the same remaining keyword
\* arguments and the same normalized base tuple.
C29_KeywordForwarding ==
    /\ pc \in {"prepare", "mapping", "inject", "body", "orig", "del", "call",
               "attach", "verify"} => "metaclass" \notin kwargs
    /\ Normalized => "metaclass" \notin kwargs
    /\ \A k \in EvOps("mro_entries") :
          /\ events[k].kw = {}
          /\ events[k].bases = arg_bases
          /\ \A j \in EvOps("prepare") \cup EvOps("call") : k < j
    /\ (pc = "bases" /\ kw_metaclass # "absent") => "metaclass" \in kwargs
    /\ Forwarded

\* C29 witness: a hook of a base ran, then the prepare hook and the metaclass
\* given by keyword were passed the other keyword and the normalized tuple
C29_Witness ==
    /\ kw_metaclass = "MetaB"
    /\ EvOps("mro_entries") # {}
    /\ \E p \in EvOps("prepare"), c \in EvOps("call") :
          /\ events[p].kw = {"flag"}
          /\ events[c].kw = {"flag"}
          /\ events[c].bases = <<"ClsA", "ClsB">>
          /\ events[c].bases # arg_bases

----------------------------------------------------------------------------
(* Properties of the handles in use (specifications HSpec and LiveSpec) *)

\* the log of the code run for binding h of the iterable handle
LogOf(h) == SelectSeq(hevents, LAMBDA e : e.by = "iterable" /\ e.h = h)

\* C24: an adapter with an iterator of its own hands out, pull by pull, the
\* conversion of each raw element the iterator yields: Ok(value), or the
\* conversion error for that pull, after which the next pull goes on with the
\* next element; an error is never left out and never ends the sequence by
\* itself: the adapter is done only when the iterator has signalled completion
\* (or, in fallback mode, when the subscript itself raised), and every element
\* yielded is converted right after its pull.
C24_LazyConversion ==
    \A h \in 1..2 :
        (iters[h].st \in {"active", "done"} /\ iters[h].it = h) =>
            LET out == iters[h].out
                fb == iters[h].fallback
                items == obj.items
                log == LogOf(h)
            IN /\ Len(out) <= Len(items)
               /\ out = SubSeq(Full(items, fb), 1, Len(out))
               /\ \A k \in 1..Len(out) :
                     items[k] # "boom" => out[k] = TryConvert(items[k])
               /\ \A k \in 1..(Len(out) - 1) :
                     (~out[k].ok /\ items[k] # "boom") =>
                         out[k + 1] = Full(items, fb)[k + 1]
               /\ (iters[h].st = "done" /\ Len(out) < Len(items)) =>
                     (fb /\ Len(out) > 0 /\ items[Len(out)] = "boom")
               /\ (iters[h].st = "done" /\ ~fb) =>
                     /\ log[Len(log)].op = "next"
                     /\ log[Len(log)].pos = Len(items)
               /\ \A k \in 1..Len(log) :
                     log[k].op = "convert" =>
                         /\ k > 1
                         /\ log[k - 1].op \in {"next", "getitem"}
                         /\ log[k - 1].pos = log[k].pos
               /\ Len(Converts(log)) =
                     Cardinality({k \in 1..Len(out) : items[k] # "boom"})

\* C24 witness: the conversion of the first element failed, the caller went
\* on pulling and got the second element, then the end
C24_Witness ==
    /\ obj.cls = "Container" /\ obj.items = <<"s", "i1">>
    /\ iters[1].it = 1 /\ iters[1].st = "done"
    /\ iters[1].out = <<PErr(Err("TypeError", "conversion")), POk("1")>>

\* the calls of slots made for the callable handle, and for binding h of the
\* iterable handle
CallsOfCallable == SelectSeq(hevents, LAMBDA e : e.by = "callable")
SlotCalls(h) ==
    SelectSeq(LogOf(h), LAMBDA e : e.op \notin {"next", "getitem", "convert"})

\* the slot a lookup in the type chain of the object finds now
FoundNow(cap) == mro_find_map(type_slots, obj.cls, cap)

\* C25: whatever has become of the slot table since a handle was bound,
\* invoke calls the call slot stored in the handle, once per call, and gives
\* back what the callee returned or raised; iter() calls the iterate slot
\* stored in the handle, or makes the fallback iterator exactly when the
\* handle stores none: a slot found by a new lookup is never the one used
\* unless it is the stored one.
C25_HandlesAreSnapshots ==
    /\ \A k \in 1..Len(CallsOfCallable) :
          /\ callable.tag = "ok"
          /\ CallsOfCallable[k].op = callable.slot
          /\ CallsOfCallable[k].op # NoSlot
    /\ call_result # NoResult =>
          /\ Len(CallsOfCallable) = 1
          /\ call_result \in CalleeAnswers
    /\ \A h \in 1..2 :
          /\ \A k \in 1..Len(SlotCalls(h)) :
                /\ iterable[h].tag = "ok"
                /\ SlotCalls(h)[k].op = iterable[h].slot
                /\ SlotCalls(h)[k].op # NoSlot
          /\ iters[h].st # "none" =>
                /\ Len(SlotCalls(h)) = (IF iterable[h].slot = NoSlot THEN 0 ELSE 1)
                /\ iters[h].st \in {"active", "done"} =>
                      (iters[h].fallback <=> iterable[h].slot = NoSlot)
                /\ (iters[h].st = "failed" /\ iterable[h].slot = NoSlot) => FALSE
    /\ callable.tag = "ok" =>
          callable.slot \in {mro_find_map(SlotTable, obj.cls, "call"), FoundNow("call")}
    /\ \A h \in 1..2 : iterable[h].tag = "ok" =>
          iterable[h].slot \in {mro_find_map(SlotTable, obj.cls, "iter"), FoundNow("iter")}

\* C25 witness: the call slot of the type was replaced after the handle was
\* bound; invoke called the slot of the handle and gave back the callee's error
C25_Witness ==
    /\ obj.cls = "Functor"
    /\ callable.slot = "Functor.__call__"
    /\ FoundNow("call") = Patched
    /\ hevents = <<HEv("Functor.__call__", "callable", 0, 0)>>
    /\ call_result = UserErr("call")

\* C26 (as claimed): for every globals object make_scope hands to
\* from_dict_exact (any instance of dict, instances of subclasses too), the
\* handle built without verification holds the same object and the same
\* mapping methods as the handle try_from_object builds for that object.
C26_ShortcutEquivalence ==
    (param = "globals" /\ mapping.tag = "ok") =>
        /\ mapping = ArgMapping_from_dict_exact(obj)
        /\ mapping = ArgMapping_try_from_object(type_slots, obj)

----------------------------------------------------------------------------
(* Re-entrancy (specification NestSpec) *)

\* the locals of f that an error let through by the user code of f may
\* change: where f is, what it returns and its logs
SameButOutcome(f, g) ==
    [f EXCEPT !.pc = g.pc, !.result = g.result, !.events = g.events,
              !.raised = g.raised, !.body_did = g.body_did] = g

\* C27: a step of the running construction never changes a suspended one; a
\* nested construction starts from the state of a new call, with nothing of
\* its caller's, while the caller's locals are kept as they are; when it
\* returns, the construction that was suspended goes on with every local as
\* it was when it was suspended (bases, metaclass, keyword arguments,
\* namespace, class cell and the rest), or, when the nested one failed and the
\* user code lets the error through, ends at once with that same error, no
\* class, and nothing else changed.
C27_Reentrancy ==
    [][ /\ Len(stack') = Len(stack) => stack' = stack
        /\ Len(stack') > Len(stack) =>
              /\ stack' = Append(stack, Frame)
              /\ InUserCode(Frame)
              /\ \E c \in InnerCalls : Frame' = EntryFrame(c)
        /\ Len(stack') < Len(stack) =>
              LET outer == stack[Len(stack)] IN
              /\ stack' = SubSeq(stack, 1, Len(stack) - 1)
              /\ pc = "done"
              /\ result.tag = "ok" => Frame' = outer
              /\ \/ Frame' = outer
                 \/ /\ result.tag = "err"
                    /\ result' = result
                    /\ pc' = "done"
                    /\ class' = "-"
                    /\ raised'[Len(raised')].err = result
                    /\ SameButOutcome(Frame', outer)
      ]_vars

\* C27 witness: a class statement in the class body of a class statement in
\* the metaclass call of the outermost construction failed with a TypeError;
\* the body let it through and its construction has ended with that error,
\* while the outermost one is suspended with its own bases, metaclass and
\* keyword arguments
C27_Witness ==
    /\ Len(stack) = 1
    /\ stack[1].pc = "call" /\ stack[1].metaclass = "MetaB"
    /\ stack[1].kwargs = {"flag"} /\ stack[1].bases = <<"ClsB">>
    /\ pc = "done" /\ qualified_name = <<"Point">> /\ kwargs = {}
    /\ result.kind = "TypeError"
    /\ raised # <<>>
    /\ raised[Len(raised)].op = "body"
    /\ raised[Len(raised)].err = result
    /\ class = "-"

====
